---- MODULE Spec2Model ----
(***************************************************************************)
(* Model of the once-human-ai RAG pipeline: the timestamp-based sync       *)
(* client (rag_pipeline/sync_db.py) talking to the store service           *)
(* (rag_pipeline/rag_service.py) that holds the remote collection, and the *)
(* store service as a process of its own: retrieval, /add, backup and      *)
(* restore over the database directory.                                    *)
(*                                                                         *)
(* Strings are sequences of tokens (coarse characters), JSON values are    *)
(* tagged tuples, Python dicts are functions from key names to values, and *)
(* insertion-ordered dicts built by comprehension are sequences of         *)
(* <<key, value>> pairs.                                                   *)
(***************************************************************************)
EXTENDS Integers, Sequences, FiniteSets, TLC

VARIABLES
    local,              \* documents held by the local store, in listing order
    remote,             \* documents held by the remote store, in listing order
    next_uuid,          \* next id the remote /add handler will assign
    pc,                 \* position of the sync client
    runs,               \* number of push_to_remote runs started
    local_documents,    \* result of fetch_all_documents(LOCAL_URL)
    remote_documents,   \* result of fetch_all_documents(REMOTE_URL)
    local_doc_map,      \* composite key -> local document
    remote_doc_map,     \* composite key -> remote document
    i,                  \* position of the loop over local_doc_map
    j,                  \* position of the loop over remote_doc_map
    added_count,
    updated_count,
    skipped_count,
    deleted_count,
    fail_count,
    fetch_log,          \* outcomes of the listing requests of this run (log)
    calls,              \* add/delete requests issued in this run (log)
    plan,               \* per-key decisions taken in this run (log)
    local_at_start,     \* local store when the run started (log)
    remote_at_start,    \* remote store when the run started (log)
    history,            \* one report per finished run (log)
    chroma_db_path,     \* the service's CHROMA_DB_PATH setting (DB_PATH)
    disk,               \* path -> database directory on the service's host
    client_path,        \* path the live client / collection handle was opened on
    uuids,              \* ids the service's /add handler has generated
    request_counter,    \* the service's query counters
    restores,           \* POST /restore requests handled
    response,           \* the last response of the service (log)
    supplied,           \* what each accepted POST /add was given (log)
    restored_to,        \* directory the last successful restore repopulated (log)
    downloaded,         \* the last archive GET /backup sent and what the store held (log)
    in_flight,          \* the POST /restore being handled, step by step
    seen,               \* outcomes of the requests served during that restore (log)
    invocation,         \* the last start of sync_db.py from the command line (log)
    source_db,          \* the pre-built database in the image (SOURCE_DB_PATH)
    destination_db,     \* the database directory of the volume (DESTINATION_DB_PATH)
    flag_file,          \* .migration_complete exists
    setup,              \* the last call of run_initial_setup (log)
    cleanup             \* the run of find_and_remove_duplicates

sync_vars == <<local, remote, next_uuid, pc, runs, local_documents, remote_documents,
               local_doc_map, remote_doc_map, i, j, added_count, updated_count,
               skipped_count, deleted_count, fail_count, fetch_log, calls, plan,
               local_at_start, remote_at_start, history>>

svc_vars == <<chroma_db_path, disk, client_path, uuids, request_counter, restores,
              response, supplied, restored_to, downloaded, in_flight, seen>>

tool_vars == <<invocation, source_db, destination_db, flag_file, setup, cleanup>>

vars == <<sync_vars, svc_vars, tool_vars>>

(***************************************************************************)
(* Bounds of the model.                                                    *)
(***************************************************************************)
\* documents held by the two stores together in the initial state
MaxDocs == 3
\* runs of the sync client
MaxRuns == 2
\* documents the service's collection holds when the service starts
MaxStored == 2
\* POST /query requests
MaxQueries == 1
\* POST /add requests the service accepts
MaxAdds == 1
\* POST /restore requests
MaxRestores == 2
\* files of the pre-built database
MaxFiles == 2
\* calls of run_initial_setup
MaxSetups == 3

(***************************************************************************)
(* JSON / Python values.                                                   *)
(***************************************************************************)
NoneVal == <<"none">>
StrV(toks) == <<"str", toks>>
IntV(n) == <<"int", n>>
BoolV(b) == <<"bool", b>>
ListV(items) == <<"list", items>>

\* Python truthiness of a value (`if not x`).
Truthy(v) ==
    CASE v[1] = "none" -> FALSE
      [] v[1] = "str"  -> v[2] # <<>>
      [] v[1] = "int"  -> v[2] # 0
      [] v[1] = "bool" -> v[2]
      [] v[1] = "list" -> v[2] # <<>>

\* dict.get(k): the value, or None when the key is missing.
Get(d, k) == IF k \in DOMAIN d THEN d[k] ELSE NoneVal

(***************************************************************************)
(* ISO-8601 strings.  A timestamp string is a date-time body token,        *)
(* optionally followed by a suffix token; anything else does not parse.    *)
(***************************************************************************)
BodyTokens == {"T1", "T2", "T3"}
OffsetTokens == {"+00:00", "+01:00"}

\* hours since the epoch written by a body token
TimeOf(tok) == CASE tok = "T1" -> 1 [] tok = "T2" -> 2 [] tok = "T3" -> 3
\* hours east of UTC written by an offset token
OffsetOf(tok) == CASE tok = "+00:00" -> 0 [] tok = "+01:00" -> 1

\* datetime.datetime.fromisoformat: a naive datetime, an aware datetime
\* (kept as its UTC instant), or ValueError.
fromisoformat(toks) ==
    IF Len(toks) = 1 /\ toks[1] \in BodyTokens
    THEN <<"naive", TimeOf(toks[1])>>
    ELSE IF Len(toks) = 2 /\ toks[1] \in BodyTokens /\ toks[2] \in OffsetTokens
    THEN <<"aware", TimeOf(toks[1]) - OffsetOf(toks[2])>>
    ELSE <<"ValueError">>

\* The replacement of a trailing 'Z' by '+00:00'.
ReplaceTrailingZ(toks) ==
    IF toks[Len(toks)] = "Z"
    THEN SubSeq(toks, 1, Len(toks) - 1) \o <<"+00:00">>
    ELSE toks

\* get_timestamp(doc): None, a datetime, or an uncaught AttributeError when
\* updated_at is a truthy value that is not a string.
get_timestamp(doc) ==
    LET ts_str == Get(doc.metadata, "updated_at") IN
    IF ~Truthy(ts_str) THEN NoneVal
    ELSE IF ts_str[1] # "str" THEN <<"raise", "AttributeError">>
    ELSE LET parsed == fromisoformat(ReplaceTrailingZ(ts_str[2])) IN
         IF parsed[1] = "ValueError" THEN NoneVal ELSE parsed

\* The decision logic of push_to_remote for a key present on both sides:
\* "update", "skip", or "raise" (an exception nothing catches: the
\* AttributeError above, or the TypeError of comparing an offset-naive with
\* an offset-aware datetime).
TimestampDecision(local_doc, remote_doc) ==
    LET local_ts == get_timestamp(local_doc)
        remote_ts == get_timestamp(remote_doc)
    IN  IF local_ts[1] = "raise" \/ remote_ts[1] = "raise" THEN "raise"
        ELSE IF local_ts # NoneVal /\ remote_ts # NoneVal
        THEN IF local_ts[1] # remote_ts[1] THEN "raise"
             ELSE IF local_ts[2] > remote_ts[2] THEN "update"
             ELSE "skip"
        ELSE IF local_ts # NoneVal THEN "update"
        ELSE "skip"

(***************************************************************************)
(* The composite key and the key -> document maps.                         *)
(***************************************************************************)
\* (doc['metadata']['source'], doc['metadata'].get('page_number'))
CompositeKey(doc) == <<doc.metadata["source"], Get(doc.metadata, "page_number")>>

\* d[k] = v on an insertion-ordered dict: a key keeps its first position
\* and takes the last value.
DictSet(d, k, v) ==
    IF \E n \in 1..Len(d) : d[n][1] = k
    THEN [n \in 1..Len(d) |-> IF d[n][1] = k THEN <<k, v>> ELSE d[n]]
    ELSE Append(d, <<k, v>>)

RECURSIVE BuildDocMap(_)
\* { CompositeKey(doc): doc for doc in documents }
BuildDocMap(documents) ==
    IF documents = <<>> THEN <<>>
    ELSE LET doc == documents[Len(documents)]
         IN DictSet(BuildDocMap(SubSeq(documents, 1, Len(documents) - 1)),
                    CompositeKey(doc), doc)

HasKey(d, k) == \E n \in 1..Len(d) : d[n][1] = k
Lookup(d, k) == d[CHOOSE n \in 1..Len(d) : d[n][1] = k][2]

(***************************************************************************)
(* The store service's handlers, as functions of the collection.           *)
(***************************************************************************)
\* GET /documents: every document, in the collection's order.
get_all_documents(collection) ==
    [n \in 1..Len(collection) |->
        [id |-> collection[n].id,
         document |-> collection[n].document,
         metadata |-> collection[n].metadata]]

\* str(value), as tokens
PyStr(v) ==
    CASE v[1] = "str"  -> v[2]
      [] v[1] = "int"  -> <<ToString(v[2])>>
      [] v[1] = "bool" -> IF v[2] THEN <<"True">> ELSE <<"False">>
      [] v[1] = "none" -> <<"None">>

RECURSIVE JoinItems(_)
\* '; '.join(map(str, value))
JoinItems(items) ==
    IF items = <<>> THEN <<>>
    ELSE IF Len(items) = 1 THEN PyStr(items[1])
    ELSE PyStr(items[1]) \o <<"; ">> \o JoinItems(Tail(items))

\* A variant that stores the verified flag as the caller supplied it.
ProcessMetadata_keeps_verified(metadata) ==
    [k \in DOMAIN metadata |->
        IF metadata[k][1] = "list" THEN StrV(JoinItems(metadata[k][2]))
        ELSE metadata[k]]

\* The metadata a POST /add stores: lists joined, the verified flag forced.
ProcessMetadata(metadata) ==
    [k \in (DOMAIN metadata) \cup {"verified"} |->
        IF k = "verified" THEN BoolV(TRUE)
        ELSE IF metadata[k][1] = "list" THEN StrV(JoinItems(metadata[k][2]))
        ELSE metadata[k]]

\* POST /add: 400 when document or metadata is missing or empty; otherwise
\* the document is stored under a fresh id.
add_to_database(collection, document, metadata, doc_id) ==
    IF document = <<>> \/ DOMAIN metadata = {}
    THEN [success |-> FALSE, collection |-> collection]
    ELSE [success |-> TRUE,
          collection |-> Append(collection,
                                [id |-> doc_id,
                                 document |-> document,
                                 metadata |-> ProcessMetadata(metadata)])]

\* POST /delete: the collection without that id; an id the collection does
\* not hold is deleted "successfully" too.
delete_from_database(collection, doc_id) ==
    [success |-> TRUE,
     collection |-> SelectSeq(collection, LAMBDA d : d.id # doc_id)]

(***************************************************************************)
(* The sync client's HTTP helpers.  `net` is what the transport does:      *)
(* "ok" delivers the request and the response, "fail" is a connection      *)
(* error or an error status raised before the handler changed anything.    *)
(***************************************************************************)
NetOutcomes == {"ok", "fail"}
ListingOutcomes == {"ok", "conn_error", "http_error", "success_false"}

NoDocuments == [is_none |-> TRUE, documents |-> <<>>]

\* A variant that answers a failed listing with the empty list instead of
\* None, so that the caller cannot tell a failure from an empty store.
fetch_all_documents_empty_on_failure(outcome, collection) ==
    [is_none |-> FALSE,
     documents |-> IF outcome = "ok" THEN get_all_documents(collection) ELSE <<>>]

\* fetch_all_documents(base_url): the listing, or None on any failure.
fetch_all_documents(outcome, collection) ==
    IF outcome = "ok"
    THEN [is_none |-> FALSE, documents |-> get_all_documents(collection)]
    ELSE NoDocuments

\* add_document(REMOTE_URL, document_data)
add_document(collection, document_data, net, doc_id) ==
    IF net = "ok"
    THEN add_to_database(collection, document_data.document,
                         document_data.metadata, doc_id)
    ELSE [success |-> FALSE, collection |-> collection]

\* delete_document(REMOTE_URL, doc_id)
delete_document(collection, doc_id, net) ==
    IF net = "ok"
    THEN delete_from_database(collection, doc_id)
    ELSE [success |-> FALSE, collection |-> collection]

(***************************************************************************)
(* Documents the stores may hold initially.                                *)
(***************************************************************************)
S(tok) == StrV(<<tok>>)

\* where a chunk comes from, as the ingestion scripts and the callers of
\* POST /add write it: PDF chunks carry source and section, a curated entry
\* carries the verified flag
Locations ==
    { ("source" :> S("a.pdf")) @@ ("section" :> S("1")),
      ("source" :> S("a.pdf")) @@ ("section" :> S("2")),
      ("source" :> S("b.pdf")) @@ ("section" :> S("1")) @@ ("page_number" :> IntV(1))
          @@ ("verified" :> BoolV(TRUE)) }

\* updated_at strings: without offset, with a trailing Z, unparseable
Timestamps ==
    { StrV(<<"T1">>), StrV(<<"T2">>), StrV(<<"T3">>), StrV(<<"T2", "Z">>),
      StrV(<<"x">>) }

BaseLocation == ("source" :> S("a.pdf")) @@ ("section" :> S("1"))

Metadatas ==
    Locations \cup { BaseLocation @@ ("updated_at" :> ts) : ts \in Timestamps }

MetadataSeqs(n) == [1..n -> Metadatas]

\* A store holding one document per metadata of ms; ids and texts are
\* distinct per store and position.
StoreOf(side, ms) ==
    [n \in 1..Len(ms) |->
        [id |-> <<side, n>>, document |-> <<side, "text", n>>, metadata |-> ms[n]]]

\* The sync client before its first run.
ClientNotStarted ==
    /\ next_uuid = 1
    /\ pc = "idle"
    /\ runs = 0
    /\ local_documents = NoDocuments
    /\ remote_documents = NoDocuments
    /\ local_doc_map = <<>>
    /\ remote_doc_map = <<>>
    /\ i = 1
    /\ j = 1
    /\ added_count = 0
    /\ updated_count = 0
    /\ skipped_count = 0
    /\ deleted_count = 0
    /\ fail_count = 0
    /\ fetch_log = <<>>
    /\ calls = <<>>
    /\ plan = <<>>
    /\ local_at_start = local
    /\ remote_at_start = remote
    /\ history = <<>>

(***************************************************************************)
(* The service process at start-up.                                        *)
(***************************************************************************)
\* os.getenv("CHROMA_DB_PATH", "/data/chroma_db")
DefaultDbPath == "/data/chroma_db"
Paths == {DefaultDbPath, "/app/chroma_db"}

NoDirectory == [exists |-> FALSE, docs |-> <<>>]
Directory(docs) == [exists |-> TRUE, docs |-> docs]

NoArchive == [valid |-> FALSE, docs |-> <<>>]
NoId == <<"none", 0>>

\* A response of the service, with what the handler met and left behind:
\* the documents the collection held when the request arrived, what became
\* of the temporary file the handler created, the step of a restore in
\* flight at which the request was served.
NoResponse ==
    [endpoint |-> "", status |-> 0, request |-> <<>>, results |-> <<>>,
     documents |-> <<>>, archive |-> NoArchive, id |-> NoId,
     verified_query |-> "", fallback_query |-> "",
     collection_before |-> <<>>, tmp_file |-> "none", served_at |-> "",
     overall |-> "", checks |-> <<>>, document_count |-> -1]

NoDownload == [taken |-> FALSE, archive |-> NoArchive, held |-> <<>>]
NoRestore == [step |-> "idle", file |-> <<>>, old |-> <<>>]

\* Module level of rag_service.py: the client is opened on DB_PATH, the
\* collection is fetched or created, the counters start at zero.
ServiceStarted(path, docs) ==
    /\ chroma_db_path = path
    /\ disk = [p \in Paths |-> IF p = path THEN Directory(docs) ELSE NoDirectory]
    /\ client_path = path
    /\ uuids = 0
    /\ request_counter = [total |-> 0, successful_queries |-> 0, failed_queries |-> 0]
    /\ restores = 0
    /\ response = NoResponse
    /\ supplied = <<>>
    /\ restored_to = ""
    /\ downloaded = NoDownload
    /\ in_flight = NoRestore
    /\ seen = {}

(***************************************************************************)
(* The command-line tools before they are run.                             *)
(***************************************************************************)
NotInvoked == [argv |-> <<>>, direction |-> "", ran |-> "none", usage_error |-> FALSE]

\* the files of a database directory, in the order copytree copies them
Files(n) == [k \in 1..n |-> k]
NoTree == [exists |-> FALSE, files |-> <<>>]
Tree(files) == [exists |-> TRUE, files |-> files]

NotSetUp == [calls |-> 0, outcome |-> "", copy_attempted |-> FALSE, previous |-> ""]
CleanupNotRun ==
    [pc |-> "idle", at_start |-> <<>>, duplicates_to_delete |-> <<>>, k |-> 1,
     delete_success_count |-> 0, delete_fail_count |-> 0, listing |-> "",
     unreachable |-> FALSE]

ToolsNotRun ==
    /\ invocation = NotInvoked
    /\ source_db = Tree(Files(1))
    /\ destination_db = NoTree
    /\ flag_file = FALSE
    /\ setup = NotSetUp
    /\ cleanup = CleanupNotRun

Init ==
    /\ \E nl \in 0..MaxDocs : \E nr \in 0..(MaxDocs - nl) :
         \E lm \in MetadataSeqs(nl), rm \in MetadataSeqs(nr) :
            /\ local = StoreOf("chunk", lm)
            /\ remote = StoreOf("remote", rm)
    /\ ClientNotStarted
    /\ ToolsNotRun
    /\ ServiceStarted(DefaultDbPath, <<>>)

(***************************************************************************)
(* push_to_remote, one action per step of the run.                         *)
(***************************************************************************)
Report(outcome) ==
    [outcome |-> outcome, added |-> added_count, updated |-> updated_count,
     skipped |-> skipped_count, deleted |-> deleted_count, failed |-> fail_count]

\* push_to_remote() is entered: a new run.
BeginRun ==
    /\ pc \in {"idle", "done", "aborted", "crashed"}
    /\ runs < MaxRuns
    /\ runs' = runs + 1
    /\ pc' = "fetch_local"
    /\ local_documents' = NoDocuments
    /\ remote_documents' = NoDocuments
    /\ local_doc_map' = <<>>
    /\ remote_doc_map' = <<>>
    /\ i' = 1
    /\ j' = 1
    /\ added_count' = 0
    /\ updated_count' = 0
    /\ skipped_count' = 0
    /\ deleted_count' = 0
    /\ fail_count' = 0
    /\ fetch_log' = <<>>
    /\ calls' = <<>>
    /\ plan' = <<>>
    /\ local_at_start' = local
    /\ remote_at_start' = remote
    /\ UNCHANGED <<local, remote, next_uuid, history>>

\* The script is started (direction "push").
StartRun ==
    /\ BeginRun
    /\ UNCHANGED <<svc_vars, tool_vars>>

\* Step 1, local listing: abort when it is None.
FetchLocal ==
    /\ pc = "fetch_local"
    /\ \E outcome \in ListingOutcomes :
         /\ local_documents' = fetch_all_documents(outcome, local)
         /\ fetch_log' = Append(fetch_log, outcome)
         /\ IF local_documents'.is_none
            THEN /\ pc' = "aborted"
                 /\ history' = Append(history, Report("aborted"))
            ELSE /\ pc' = "fetch_remote"
                 /\ UNCHANGED history
    /\ UNCHANGED <<local, remote, next_uuid, runs, remote_documents, local_doc_map,
                   remote_doc_map, i, j, added_count, updated_count, skipped_count,
                   deleted_count, fail_count, calls, plan, local_at_start,
                   remote_at_start>>
    /\ UNCHANGED <<svc_vars, tool_vars>>

\* Step 1, remote listing: abort when it is None; otherwise build both maps
\* and initialise the counters.
FetchRemote ==
    /\ pc = "fetch_remote"
    /\ \E outcome \in ListingOutcomes :
         /\ remote_documents' = fetch_all_documents(outcome, remote)
         /\ fetch_log' = Append(fetch_log, outcome)
         /\ IF remote_documents'.is_none
            THEN /\ pc' = "aborted"
                 /\ history' = Append(history, Report("aborted"))
                 /\ UNCHANGED <<local_doc_map, remote_doc_map>>
            ELSE /\ pc' = "sync"
                 /\ local_doc_map' = BuildDocMap(local_documents.documents)
                 /\ remote_doc_map' = BuildDocMap(remote_documents'.documents)
                 /\ UNCHANGED history
    /\ i' = 1
    /\ j' = 1
    /\ added_count' = 0
    /\ updated_count' = 0
    /\ skipped_count' = 0
    /\ deleted_count' = 0
    /\ fail_count' = 0
    /\ UNCHANGED <<local, remote, next_uuid, runs, local_documents, calls, plan,
                   local_at_start, remote_at_start>>
    /\ UNCHANGED <<svc_vars, tool_vars>>

\* Every add and delete of a run is posted to REMOTE_URL.
Call(op, key, id, ok) ==
    [op |-> op, url |-> "REMOTE_URL", key |-> key, id |-> id, ok |-> ok]
Planned(key, action, ok, local_id, remote_id) ==
    [key |-> key, action |-> action, ok |-> ok, local_id |-> local_id,
     remote_id |-> remote_id]

\* A variant that repeats a failed add once.
AddNew_with_retry(key, local_doc) ==
    \E net \in NetOutcomes, net_again \in NetOutcomes :
        LET first == add_document(remote, local_doc, net, <<"uuid", next_uuid>>)
            res == IF first.success THEN first
                   ELSE add_document(remote, local_doc, net_again,
                                     <<"uuid", next_uuid>>)
        IN
        /\ remote' = res.collection
        /\ next_uuid' = IF res.success THEN next_uuid + 1 ELSE next_uuid
        /\ added_count' = IF res.success THEN added_count + 1 ELSE added_count
        /\ fail_count' = IF res.success THEN fail_count ELSE fail_count + 1
        /\ calls' = calls \o <<Call("add", key, local_doc.id, first.success)>>
                          \o (IF first.success THEN <<>>
                              ELSE <<Call("add", key, local_doc.id, res.success)>>)
        /\ plan' = Append(plan, Planned(key, "add", res.success, local_doc.id, NoId))
        /\ pc' = pc
        /\ UNCHANGED <<local, updated_count, skipped_count, history>>

\* A variant that posts the add to LOCAL_URL.
AddNew_to_local(key, local_doc) ==
    \E net \in NetOutcomes :
        LET res == add_document(local, local_doc, net, <<"uuid", next_uuid>>) IN
        /\ local' = res.collection
        /\ next_uuid' = IF res.success THEN next_uuid + 1 ELSE next_uuid
        /\ added_count' = IF res.success THEN added_count + 1 ELSE added_count
        /\ fail_count' = IF res.success THEN fail_count ELSE fail_count + 1
        /\ calls' = Append(calls, [op |-> "add", url |-> "LOCAL_URL", key |-> key,
                                   id |-> local_doc.id, ok |-> res.success])
        /\ plan' = Append(plan, Planned(key, "add", res.success, local_doc.id, NoId))
        /\ pc' = pc
        /\ UNCHANGED <<remote, updated_count, skipped_count, history>>

\* Step 4, a key the remote listing does not have: add.
AddNew(key, local_doc) ==
    \E net \in NetOutcomes :
        LET res == add_document(remote, local_doc, net, <<"uuid", next_uuid>>) IN
        /\ remote' = res.collection
        /\ next_uuid' = IF res.success THEN next_uuid + 1 ELSE next_uuid
        /\ added_count' = IF res.success THEN added_count + 1 ELSE added_count
        /\ fail_count' = IF res.success THEN fail_count ELSE fail_count + 1
        /\ calls' = Append(calls, Call("add", key, local_doc.id, res.success))
        /\ plan' = Append(plan, Planned(key, "add", res.success, local_doc.id, NoId))
        /\ pc' = pc
        /\ UNCHANGED <<local, updated_count, skipped_count, history>>

\* A variant that puts the deleted remote copy back when the add fails.
UpdateExisting_with_rollback(key, local_doc, remote_doc) ==
    \E net_delete \in NetOutcomes, net_add \in NetOutcomes :
        LET del == delete_document(remote, remote_doc.id, net_delete)
            add == IF del.success
                   THEN add_document(del.collection, local_doc, net_add,
                                     <<"uuid", next_uuid>>)
                   ELSE [success |-> FALSE, collection |-> del.collection]
            ok == del.success /\ add.success
            rollback == del.success /\ ~add.success
            back == IF rollback
                    THEN add_document(add.collection, remote_doc, "ok",
                                      <<"uuid", next_uuid>>)
                    ELSE add
        IN
        /\ remote' = back.collection
        /\ next_uuid' = IF ok \/ rollback THEN next_uuid + 1 ELSE next_uuid
        /\ updated_count' = IF ok THEN updated_count + 1 ELSE updated_count
        /\ fail_count' = IF ok THEN fail_count ELSE fail_count + 1
        /\ calls' = calls \o <<Call("delete", key, remote_doc.id, del.success)>>
                          \o (IF del.success
                              THEN <<Call("add", key, local_doc.id, add.success)>>
                              ELSE <<>>)
                          \o (IF rollback
                              THEN <<Call("add", key, remote_doc.id, TRUE)>>
                              ELSE <<>>)
        /\ plan' = Append(plan, Planned(key, "update", ok, local_doc.id, remote_doc.id))
        /\ pc' = pc
        /\ UNCHANGED <<local, added_count, skipped_count, history>>

\* A variant without the short-circuit: the add is issued after a failed
\* delete too.
UpdateExisting_add_after_failed_delete(key, local_doc, remote_doc) ==
    \E net_delete \in NetOutcomes, net_add \in NetOutcomes :
        LET del == delete_document(remote, remote_doc.id, net_delete)
            add == add_document(del.collection, local_doc, net_add,
                                <<"uuid", next_uuid>>)
            ok == del.success /\ add.success
        IN
        /\ remote' = add.collection
        /\ next_uuid' = IF add.success THEN next_uuid + 1 ELSE next_uuid
        /\ updated_count' = IF ok THEN updated_count + 1 ELSE updated_count
        /\ fail_count' = IF ok THEN fail_count ELSE fail_count + 1
        /\ calls' = calls \o <<Call("delete", key, remote_doc.id, del.success),
                                Call("add", key, local_doc.id, add.success)>>
        /\ plan' = Append(plan, Planned(key, "update", ok, local_doc.id, remote_doc.id))
        /\ pc' = pc
        /\ UNCHANGED <<local, added_count, skipped_count, history>>

\* Step 4, local is newer: delete the remote copy, then add the local one.
\* `and` short-circuits: a failed delete issues no add.
UpdateExisting(key, local_doc, remote_doc) ==
    \E net_delete \in NetOutcomes, net_add \in NetOutcomes :
        LET del == delete_document(remote, remote_doc.id, net_delete)
            add == IF del.success
                   THEN add_document(del.collection, local_doc, net_add,
                                     <<"uuid", next_uuid>>)
                   ELSE [success |-> FALSE, collection |-> del.collection]
            ok == del.success /\ add.success
        IN
        /\ remote' = add.collection
        /\ next_uuid' = IF ok THEN next_uuid + 1 ELSE next_uuid
        /\ updated_count' = IF ok THEN updated_count + 1 ELSE updated_count
        /\ fail_count' = IF ok THEN fail_count ELSE fail_count + 1
        /\ calls' = calls \o <<Call("delete", key, remote_doc.id, del.success)>>
                          \o (IF del.success
                              THEN <<Call("add", key, local_doc.id, add.success)>>
                              ELSE <<>>)
        /\ plan' = Append(plan, Planned(key, "update", ok, local_doc.id, remote_doc.id))
        /\ pc' = pc
        /\ UNCHANGED <<local, added_count, skipped_count, history>>

\* Step 4, remote is newer, the timestamps are equal, or local has none.
SkipExisting(key, local_doc, remote_doc) ==
    /\ skipped_count' = skipped_count + 1
    /\ plan' = Append(plan, Planned(key, "skip", TRUE, local_doc.id, remote_doc.id))
    /\ pc' = pc
    /\ UNCHANGED <<local, remote, next_uuid, added_count, updated_count, fail_count,
                   calls, history>>

\* Step 4, the timestamp code raises: the exception ends the script.
RaiseInLoop(key, local_doc, remote_doc) ==
    /\ pc' = "crashed"
    /\ plan' = Append(plan, Planned(key, "raise", FALSE, local_doc.id, remote_doc.id))
    /\ history' = Append(history, Report("crashed"))
    /\ UNCHANGED <<local, remote, next_uuid, added_count, updated_count,
                   skipped_count, fail_count, calls>>

\* Step 4: one iteration of the loop over local_doc_map.
ProcessLocal ==
    /\ pc = "sync"
    /\ i <= Len(local_doc_map)
    /\ LET key == local_doc_map[i][1]
           local_doc == local_doc_map[i][2]
       IN IF ~HasKey(remote_doc_map, key)
          THEN AddNew(key, local_doc)
          ELSE LET remote_doc == Lookup(remote_doc_map, key)
                   decision == TimestampDecision(local_doc, remote_doc)
               IN CASE decision = "update" -> UpdateExisting(key, local_doc, remote_doc)
                    [] decision = "skip" -> SkipExisting(key, local_doc, remote_doc)
                    [] decision = "raise" -> RaiseInLoop(key, local_doc, remote_doc)
    /\ i' = i + 1
    /\ UNCHANGED <<runs, local_documents, remote_documents, local_doc_map,
                   remote_doc_map, j, deleted_count, fetch_log, local_at_start,
                   remote_at_start>>
    /\ UNCHANGED <<svc_vars, tool_vars>>

\* Step 5: one iteration of the loop over remote_doc_map.
ProcessRemote ==
    /\ pc = "sync"
    /\ i > Len(local_doc_map)
    /\ j <= Len(remote_doc_map)
    /\ LET key == remote_doc_map[j][1]
           remote_doc == remote_doc_map[j][2]
       IN IF ~HasKey(local_doc_map, key)
          THEN \E net \in NetOutcomes :
                  LET res == delete_document(remote, remote_doc.id, net) IN
                  /\ remote' = res.collection
                  /\ deleted_count' = IF res.success THEN deleted_count + 1
                                      ELSE deleted_count
                  /\ fail_count' = IF res.success THEN fail_count ELSE fail_count + 1
                  /\ calls' = Append(calls, Call("delete", key, remote_doc.id, res.success))
                  /\ plan' = Append(plan, Planned(key, "delete", res.success, NoId,
                                                  remote_doc.id))
          ELSE UNCHANGED <<remote, deleted_count, fail_count, calls, plan>>
    /\ j' = j + 1
    /\ UNCHANGED <<local, next_uuid, pc, runs, local_documents, remote_documents,
                   local_doc_map, remote_doc_map, i, added_count, updated_count,
                   skipped_count, fetch_log, local_at_start, remote_at_start, history>>
    /\ UNCHANGED <<svc_vars, tool_vars>>

\* Step 6: the final summary.
Summary ==
    /\ pc = "sync"
    /\ i > Len(local_doc_map)
    /\ j > Len(remote_doc_map)
    /\ pc' = "done"
    /\ history' = Append(history, Report("done"))
    /\ UNCHANGED <<local, remote, next_uuid, runs, local_documents, remote_documents,
                   local_doc_map, remote_doc_map, i, j, added_count, updated_count,
                   skipped_count, deleted_count, fail_count, fetch_log, calls, plan,
                   local_at_start, remote_at_start>>
    /\ UNCHANGED <<svc_vars, tool_vars>>

Next ==
    \/ StartRun
    \/ FetchLocal
    \/ FetchRemote
    \/ ProcessLocal
    \/ ProcessRemote
    \/ Summary

Spec == Init /\ [][Next]_vars

(***************************************************************************)
(* sync_db.py started from the command line.                               *)
(***************************************************************************)
\* sys.argv[1:]
Argvs == { <<>>, <<"push">>, <<"pull">>, <<"PUSH">>, <<"sync">>, <<"">>,
           <<"push", "extra">> }

\* str.lower()
lower(s) ==
    CASE s = "PUSH" -> "push"
      [] s = "PULL" -> "pull"
      [] OTHER -> s

\* direction = "push", or sys.argv[1].lower() when there is an argument
Direction(argv) == IF Len(argv) > 0 THEN lower(argv[1]) ELSE "push"

\* The __main__ block: pull_from_remote(), push_to_remote(), or the error
\* message; nothing else follows the message.
Main ==
    /\ pc \in {"idle", "done", "aborted", "crashed"}
    /\ \E argv \in Argvs :
         \E direction \in {Direction(argv)} :
         CASE direction = "pull" ->
                /\ invocation' = [argv |-> argv, direction |-> direction,
                                  ran |-> "pull", usage_error |-> FALSE]
                /\ UNCHANGED sync_vars
           [] direction = "push" ->
                /\ BeginRun
                /\ invocation' = [argv |-> argv, direction |-> direction,
                                  ran |-> "push", usage_error |-> FALSE]
           [] OTHER ->
                /\ invocation' = [argv |-> argv, direction |-> direction,
                                  ran |-> "none", usage_error |-> TRUE]
                /\ UNCHANGED sync_vars
    /\ UNCHANGED <<source_db, destination_db, flag_file, setup, cleanup>>
    /\ UNCHANGED svc_vars

\* The exit status of the last start: the interpreter exits with 1 on an
\* uncaught exception and with 0 at the end of the script; the script
\* calls no exit of its own.
ExitStatus == IF invocation.ran = "push" /\ pc = "crashed" THEN 1 ELSE 0

InitCli ==
    /\ \E nl \in 0..1, nr \in 0..1 :
         \E lm \in MetadataSeqs(nl), rm \in MetadataSeqs(nr) :
            /\ local = StoreOf("chunk", lm)
            /\ remote = StoreOf("remote", rm)
    /\ ClientNotStarted
    /\ ToolsNotRun
    /\ ServiceStarted(DefaultDbPath, <<>>)

NextCli ==
    \/ Main
    \/ FetchLocal
    \/ FetchRemote
    \/ ProcessLocal
    \/ ProcessRemote
    \/ Summary

SpecCli == InitCli /\ [][NextCli]_vars

(***************************************************************************)
(* run_migrations.py: the pre-built database is copied to the volume once. *)
(***************************************************************************)
\* What os.makedirs, shutil.copytree and the writing of the flag file do in
\* one call: whether the destination directory was created, how many files
\* reached it, and whether one of the calls raised.
CopyOutcomes(n) ==
    { c \in [created : BOOLEAN, copied : 0..n, raised : BOOLEAN] :
        /\ ~c.created => (c.copied = 0 /\ c.raised)
        /\ ~c.raised => c.copied = n }

\* the body of run_initial_setup after the check of the flag file
setup_without_flag(src, dst, flag, copy) ==
    IF dst.exists /\ dst.files # <<>>
    THEN [destination |-> dst, flag |-> TRUE, outcome |-> "assumed_complete",
          copy_attempted |-> FALSE]
    ELSE IF ~src.exists
    THEN [destination |-> dst, flag |-> flag, outcome |-> "no_source",
          copy_attempted |-> FALSE]
    ELSE IF dst.exists
    THEN \* copytree raises when the destination directory exists
         [destination |-> dst, flag |-> flag, outcome |-> "failed",
          copy_attempted |-> TRUE]
    ELSE IF copy.raised
    THEN [destination |-> IF copy.created
                          THEN Tree(SubSeq(src.files, 1, copy.copied))
                          ELSE dst,
          flag |-> flag, outcome |-> "failed", copy_attempted |-> TRUE]
    ELSE [destination |-> Tree(src.files), flag |-> TRUE, outcome |-> "copied",
          copy_attempted |-> TRUE]

run_initial_setup_without_flag_check(src, dst, flag, copy) ==
    setup_without_flag(src, dst, flag, copy)

\* run_initial_setup(): nothing when the flag file exists; the flag file
\* alone when the destination holds files; nothing without the source;
\* otherwise the copy and then the flag file, and the flag file is not
\* written when the copy raised.
run_initial_setup(src, dst, flag, copy) ==
    IF flag
    THEN [destination |-> dst, flag |-> flag, outcome |-> "skipped",
          copy_attempted |-> FALSE]
    ELSE setup_without_flag(src, dst, flag, copy)

\* python run_migrations.py
RunInitialSetup ==
    /\ setup.calls < MaxSetups
    /\ \E copy \in CopyOutcomes(Len(source_db.files)) :
         \E res \in {run_initial_setup(source_db, destination_db, flag_file, copy)} :
         /\ destination_db' = res.destination
         /\ flag_file' = res.flag
         /\ setup' = [calls |-> setup.calls + 1, outcome |-> res.outcome,
                      copy_attempted |-> res.copy_attempted,
                      previous |-> setup.outcome]
    /\ UNCHANGED <<invocation, source_db, cleanup>>
    /\ UNCHANGED <<sync_vars, svc_vars>>

\* The image with or without the pre-built database, and a volume in any
\* state an earlier deployment may have left it in.
InitMigrate ==
    /\ local = <<>>
    /\ remote = <<>>
    /\ ClientNotStarted
    /\ ServiceStarted(DefaultDbPath, <<>>)
    /\ invocation = NotInvoked
    /\ cleanup = CleanupNotRun
    /\ setup = NotSetUp
    /\ source_db \in {NoTree} \cup {Tree(Files(n)) : n \in 1..MaxFiles}
    /\ destination_db \in {NoTree} \cup {Tree(Files(n)) : n \in 0..MaxFiles}
    /\ flag_file \in BOOLEAN

NextMigrate == RunInitialSetup

SpecMigrate == InitMigrate /\ [][NextMigrate]_vars

(***************************************************************************)
(* clean_remote_db.py: duplicates of a text are deleted from the remote    *)
(* store through the service's HTTP surface.                               *)
(***************************************************************************)
\* The @app.route decorators of rag_service.py: method and path segments.
Routes ==
    { <<"GET", <<"health">>>>, <<"POST", <<"query">>>>, <<"POST", <<"add">>>>,
      <<"GET", <<"metrics">>>>, <<"GET", <<"readiness">>>>,
      <<"GET", <<"liveness">>>>, <<"GET", <<>>>>, <<"GET", <<"documents">>>>,
      <<"POST", <<"delete">>>>, <<"POST", <<"update">>>>,
      <<"GET", <<"backup">>>>, <<"POST", <<"restore">>>> }

\* The status the framework answers before any handler runs: 404 for a path
\* no rule matches, 405 for a path whose rules do not allow the method;
\* 0 when the request reaches a handler.
RoutingStatus(method, path) ==
    IF <<method, path>> \in Routes THEN 0
    ELSE IF \E r \in Routes : r[2] = path THEN 405
    ELSE 404

\* delete_document(base_url, doc_id) of clean_remote_db.py:
\* requests.delete(f"{base_url}/delete/{doc_id}"), raise_for_status, and the
\* success field of the answer; False on any RequestException.
clean_delete_document(collection, doc_id, net) ==
    IF net = "ok" /\ RoutingStatus("DELETE", <<"delete", doc_id>>) = 0
    THEN delete_from_database(collection, doc_id)
    ELSE [success |-> FALSE, collection |-> collection]

\* content_to_ids: per text, in the order the texts first appear in the
\* listing, the ids of the documents with that text in listing order
content_to_ids(all_docs) ==
    LET docs == SelectSeq(all_docs, LAMBDA d : d.document # <<>>)
        first == SelectSeq([n \in 1..Len(docs) |-> n],
                           LAMBDA n : \A m \in 1..(n - 1) :
                                          docs[m].document # docs[n].document)
        ids(content) ==
            LET same == SelectSeq(docs, LAMBDA d : d.document = content)
            IN  [n \in 1..Len(same) |-> same[n].id]
    IN  [n \in 1..Len(first) |-> ids(docs[first[n]].document)]

RECURSIVE extend_with_tails(_)
\* duplicates_to_delete.extend(ids[1:]) for every text with several ids
extend_with_tails(groups) ==
    IF groups = <<>> THEN <<>>
    ELSE Tail(groups[1]) \o extend_with_tails(Tail(groups))

\* find_and_remove_duplicates up to the deleting loop: the listing, the
\* grouping by text, the ids to delete.
FindDuplicates ==
    /\ cleanup.pc = "idle"
    /\ \E outcome \in ListingOutcomes :
         \E all_docs \in {fetch_all_documents(outcome, remote)} :
         \E dups \in {extend_with_tails(content_to_ids(all_docs.documents))} :
            cleanup' =
                [cleanup EXCEPT
                    !.pc = IF all_docs.is_none \/ all_docs.documents = <<>>
                           THEN "aborted"
                           ELSE IF dups = <<>> THEN "done" ELSE "deleting",
                    !.at_start = remote,
                    !.duplicates_to_delete = dups,
                    !.listing = outcome,
                    !.unreachable = (outcome = "conn_error")]
    /\ UNCHANGED <<invocation, source_db, destination_db, flag_file, setup>>
    /\ UNCHANGED <<sync_vars, svc_vars>>

\* One round of the deleting loop; the summary after the last id.
DeleteDuplicate ==
    /\ cleanup.pc = "deleting"
    /\ \E net \in NetOutcomes :
         \E res \in {clean_delete_document(remote,
                          cleanup.duplicates_to_delete[cleanup.k], net)} :
         /\ remote' = res.collection
         /\ cleanup' =
                [cleanup EXCEPT
                    !.k = @ + 1,
                    !.delete_success_count = IF res.success THEN @ + 1 ELSE @,
                    !.delete_fail_count = IF res.success THEN @ ELSE @ + 1,
                    !.unreachable = @ \/ net # "ok",
                    !.pc = IF cleanup.k = Len(cleanup.duplicates_to_delete)
                           THEN "done" ELSE "deleting"]
    /\ UNCHANGED <<invocation, source_db, destination_db, flag_file, setup>>
    /\ UNCHANGED <<local, next_uuid, pc, runs, local_documents, remote_documents,
                   local_doc_map, remote_doc_map, i, j, added_count,
                   updated_count, skipped_count, deleted_count, fail_count,
                   fetch_log, calls, plan, local_at_start, remote_at_start,
                   history>>
    /\ UNCHANGED svc_vars

\* the texts of the remote store, some of them stored several times
Texts == { <<"r", "text", n>> : n \in 1..2 }

InitCleanup ==
    /\ local = <<>>
    /\ \E n \in 0..(MaxDocs + 1) : \E texts \in [1..n -> Texts] :
         remote = [m \in 1..n |->
                     [id |-> <<"r", m>>, document |-> texts[m],
                      metadata |-> BaseLocation]]
    /\ ClientNotStarted
    /\ ToolsNotRun
    /\ ServiceStarted(DefaultDbPath, <<>>)

NextCleanup == FindDuplicates \/ DeleteDuplicate

SpecCleanup == InitCleanup /\ [][NextCleanup]_vars

(***************************************************************************)
(* The store service as a process of its own: POST /query.                 *)
(*                                                                         *)
(* The embedding is not modelled: a text stands for its distance to the    *)
(* query, in hundredths.                                                   *)
(***************************************************************************)
Distance(query, document) ==
    CASE document = <<"t05">> -> 5
      [] document = <<"t10">> -> 10
      [] document = <<"t50">> -> 50

\* 0.5, in hundredths
ConfidenceThreshold == 50
\* data.get('n_results', 5)
DefaultNResults == 5

list_fields ==
    {"effects", "keywords", "stats_percentages", "stats_numbers", "stats_durations",
     "entities_weapons", "entities_armor_sets", "entities_key_gear",
     "entities_weapon_mods", "entities_armor_mods"}

Hit(doc, query) ==
    [id |-> doc.id, document |-> doc.document, metadata |-> doc.metadata,
     distance |-> Distance(query, doc.document)]

RECURSIVE NearestFirst(_)
\* hits by ascending distance, equal distances in the collection's order
NearestFirst(hits) ==
    IF hits = <<>> THEN <<>>
    ELSE LET m == CHOOSE n \in 1..Len(hits) :
                     \A k \in 1..Len(hits) :
                         \/ hits[n].distance < hits[k].distance
                         \/ (hits[n].distance = hits[k].distance /\ n <= k)
         IN <<hits[m]>> \o NearestFirst(SubSeq(hits, 1, m - 1)
                                         \o SubSeq(hits, m + 1, Len(hits)))

FirstN(s, n) == SubSeq(s, 1, IF n < Len(s) THEN n ELSE Len(s))

\* collection.query(query_texts=[query], n_results=n_results[, where=
\* {"verified": True}]): the n_results nearest documents that pass the
\* filter; raises on a store error, on a query that is no string and on an
\* n_results that is no positive integer.
collection_query(collection, query, n_results, where_verified, store) ==
    IF store = "error" \/ query[1] # "str" \/ n_results[1] # "int" \/ n_results[2] <= 0
    THEN [raised |-> TRUE, hits |-> <<>>]
    ELSE LET passing == SelectSeq(collection,
                            LAMBDA d : where_verified
                                       => Get(d.metadata, "verified") = BoolV(TRUE))
             hits == [n \in 1..Len(passing) |-> Hit(passing[n], query)]
         IN [raised |-> FALSE, hits |-> FirstN(NearestFirst(hits), n_results[2])]

RECURSIVE split(_)
\* value.split('; ')
split(toks) ==
    IF \E n \in 1..Len(toks) : toks[n] = "; "
    THEN LET n == CHOOSE n \in 1..Len(toks) :
                      /\ toks[n] = "; "
                      /\ \A k \in 1..(n - 1) : toks[k] # "; "
         IN <<StrV(SubSeq(toks, 1, n - 1))>> \o split(SubSeq(toks, n + 1, Len(toks)))
    ELSE <<StrV(toks)>>

\* The metadata loop of the response formatting: a truthy value of a list
\* field is split, everything else passes through.
processed_metadata(metadata) ==
    [k \in DOMAIN metadata |->
        IF k \in list_fields /\ Truthy(metadata[k])
        THEN ListV(split(metadata[k][2]))
        ELSE metadata[k]]

\* value.split on a truthy value that is no string raises AttributeError
FormattingRaises(hits) ==
    \E n \in 1..Len(hits) : \E k \in DOMAIN hits[n].metadata :
        /\ k \in list_fields
        /\ Truthy(hits[n].metadata[k])
        /\ hits[n].metadata[k][1] # "str"

formatted_results(hits) ==
    [n \in 1..Len(hits) |->
        [id |-> hits[n].id, document |-> hits[n].document,
         metadata |-> processed_metadata(hits[n].metadata),
         distance |-> hits[n].distance]]

NoResults == [is_none |-> TRUE, hits |-> <<>>]
QueryFailed(verified_query, fallback_query) ==
    [status |-> 500, results |-> <<>>, verified_query |-> verified_query,
     fallback_query |-> fallback_query]

\* A variant that accepts a verified result whose top distance is exactly
\* the threshold.
two_phase_threshold_inclusive(first, second) ==
    LET results == IF ~first.raised /\ first.hits # <<>>
                      /\ first.hits[1].distance <= ConfidenceThreshold
                   THEN [is_none |-> FALSE, hits |-> first.hits]
                   ELSE NoResults
        fallback == results.is_none \/ results.hits = <<>>
        final == IF fallback THEN second.hits ELSE results.hits
        verified_query == IF first.raised THEN "error" ELSE "ok"
        fallback_query == IF ~fallback THEN "not_issued"
                          ELSE IF second.raised THEN "error" ELSE "ok"
    IN IF (fallback /\ second.raised) \/ FormattingRaises(final)
       THEN QueryFailed(verified_query, fallback_query)
       ELSE [status |-> 200, results |-> formatted_results(final),
             verified_query |-> verified_query, fallback_query |-> fallback_query]

\* A variant that lets a store error of the verified query fail the request.
two_phase_verified_error_fatal(first, second) ==
    LET results == IF ~first.raised /\ first.hits # <<>>
                      /\ first.hits[1].distance < ConfidenceThreshold
                   THEN [is_none |-> FALSE, hits |-> first.hits]
                   ELSE NoResults
        fallback == results.is_none \/ results.hits = <<>>
        final == IF fallback THEN second.hits ELSE results.hits
    IN IF first.raised THEN QueryFailed("error", "not_issued")
       ELSE IF (fallback /\ second.raised) \/ FormattingRaises(final)
       THEN QueryFailed("ok", IF fallback THEN "error" ELSE "not_issued")
       ELSE [status |-> 200, results |-> formatted_results(final),
             verified_query |-> "ok",
             fallback_query |-> IF fallback THEN "ok" ELSE "not_issued"]

\* The two phases of query_database(), `first` being the outcome of the
\* verified-filtered query and `second` that of the query over the whole
\* collection: the verified result is kept when it is non-empty with a top
\* distance below the threshold; otherwise (also when the verified query
\* raised) the whole collection is queried, and only an exception of that
\* query or of the formatting fails the request.
two_phase(first, second) ==
    LET results == IF ~first.raised /\ first.hits # <<>>
                      /\ first.hits[1].distance < ConfidenceThreshold
                   THEN [is_none |-> FALSE, hits |-> first.hits]
                   ELSE NoResults
        fallback == results.is_none \/ results.hits = <<>>
        final == IF fallback THEN second.hits ELSE results.hits
        verified_query == IF first.raised THEN "error" ELSE "ok"
        fallback_query == IF ~fallback THEN "not_issued"
                          ELSE IF second.raised THEN "error" ELSE "ok"
    IN IF (fallback /\ second.raised) \/ FormattingRaises(final)
       THEN QueryFailed(verified_query, fallback_query)
       ELSE [status |-> 200, results |-> formatted_results(final),
             verified_query |-> verified_query, fallback_query |-> fallback_query]

\* query_database(): request.json that is None raises before any query is
\* issued (500); otherwise the two phases run on the collection.
query_database(collection, json, store_verified, store_all) ==
    IF ~json.is_json THEN QueryFailed("not_issued", "not_issued")
    ELSE LET query == Get(json.data, "query")
             n_results == IF "n_results" \in DOMAIN json.data
                          THEN json.data["n_results"] ELSE IntV(DefaultNResults)
         IN two_phase(collection_query(collection, query, n_results, TRUE,
                                       store_verified),
                      collection_query(collection, query, n_results, FALSE,
                                       store_all))

\* the documents the live collection handle reads and writes
Collection == disk[client_path].docs

StoreOutcomes == {"ok", "error"}

\* request bodies of POST /query: no JSON, no query, a query with and
\* without n_results
QueryBodies ==
    { [is_json |-> FALSE, data |-> <<>>],
      [is_json |-> TRUE, data |-> <<>>],
      [is_json |-> TRUE, data |-> ("query" :> S("q"))],
      [is_json |-> TRUE, data |-> ("query" :> S("q")) @@ ("n_results" :> IntV(1))] }

\* A variant that counts a request only once its body was read.
count_query_after_body(counter, status) ==
    [total |-> counter.total + (IF status = 200 THEN 1 ELSE 0),
     successful_queries |-> counter.successful_queries
                              + (IF status = 200 THEN 1 ELSE 0),
     failed_queries |-> counter.failed_queries
                          + (IF status = 200 THEN 0 ELSE 1)]

\* The counters of query_database: total before the try, successful_queries
\* before the answer is returned, failed_queries in the except branch.
count_query(counter, status) ==
    [total |-> counter.total + 1,
     successful_queries |-> counter.successful_queries
                              + (IF status = 200 THEN 1 ELSE 0),
     failed_queries |-> counter.failed_queries
                          + (IF status = 200 THEN 0 ELSE 1)]

\* POST /query
QueryRequest ==
    /\ in_flight.step = "idle"
    /\ request_counter.total < MaxQueries
    /\ \E json \in QueryBodies, store_verified \in StoreOutcomes,
          store_all \in StoreOutcomes :
         \E res \in {query_database(Collection, json, store_verified, store_all)} :
         /\ request_counter' = count_query(request_counter, res.status)
         /\ response' = [NoResponse EXCEPT !.endpoint = "query",
                                           !.status = res.status,
                                           !.request = json.data,
                                           !.results = res.results,
                                           !.verified_query = res.verified_query,
                                           !.fallback_query = res.fallback_query]
    /\ UNCHANGED <<chroma_db_path, disk, client_path, uuids, restores, supplied,
                   restored_to, downloaded, in_flight, seen>>
    /\ UNCHANGED <<sync_vars, tool_vars>>

\* what callers of POST /add send as metadata
AddMetadatas ==
    { ("keywords" :> ListV(<<S("a"), S("b")>>)),
      ("keywords" :> ListV(<<>>)),
      ("tags" :> ListV(<<S("a"), S("b")>>)),
      ("keywords" :> ListV(<<IntV(1), IntV(2)>>)),
      ("effects" :> StrV(<<"a", "; ", "b">>)),
      ("source" :> S("note")) @@ ("keywords" :> ListV(<<S("a")>>)),
      ("source" :> S("note")) @@ ("verified" :> BoolV(FALSE)),
      <<>> }
AddDocuments == {<<"t10">>, <<>>}

\* POST /add.  Without a JSON object as body, request.json or data.get
\* raises and the handler answers 500.
AddRequest ==
    /\ in_flight.step = "idle"
    /\ uuids < MaxAdds
    /\ \E is_json \in BOOLEAN, document \in AddDocuments, metadata \in AddMetadatas :
         \E doc_id \in {<<"uuid", uuids + 1>>} :
         \E res \in {IF is_json
                     THEN add_to_database(Collection, document, metadata, doc_id)
                     ELSE [success |-> FALSE, collection |-> Collection]} :
         /\ ~is_json => (document = <<>> /\ metadata = <<>>)
         /\ disk' = [disk EXCEPT ![client_path].docs = res.collection]
         /\ uuids' = IF res.success THEN uuids + 1 ELSE uuids
         /\ supplied' = IF res.success
                        THEN Append(supplied, [id |-> doc_id, metadata |-> metadata])
                        ELSE supplied
         /\ response' = [NoResponse EXCEPT
                            !.endpoint = "add",
                            !.status = IF res.success THEN 200
                                       ELSE IF is_json THEN 400 ELSE 500,
                            !.request = [is_json |-> is_json,
                                         document |-> document,
                                         metadata |-> metadata],
                            !.id = IF res.success THEN doc_id ELSE NoId,
                            !.collection_before = Collection,
                            !.served_at = "idle"]
    /\ UNCHANGED <<chroma_db_path, client_path, request_counter, restores, restored_to,
                   downloaded, in_flight, seen>>
    /\ UNCHANGED <<sync_vars, tool_vars>>

\* documents the collection holds when the service starts: curated entries
\* and a PDF chunk whose keywords were joined at ingestion
StoredShapes ==
    { [document |-> <<"t10">>,
       metadata |-> ("source" :> S("guide")) @@ ("verified" :> BoolV(TRUE))],
      [document |-> <<"t50">>,
       metadata |-> ("source" :> S("guide")) @@ ("verified" :> BoolV(TRUE))],
      [document |-> <<"t05">>,
       metadata |-> ("source" :> S("a.pdf")) @@ ("section" :> S("1"))
                    @@ ("keywords" :> StrV(<<"a", "; ", "b">>))] }

StoredCollection(shapes) ==
    [n \in 1..Len(shapes) |->
        [id |-> <<"chunk", n>>, document |-> shapes[n].document,
         metadata |-> shapes[n].metadata]]

InitQuery ==
    /\ local = <<>>
    /\ remote = <<>>
    /\ ClientNotStarted
    /\ ToolsNotRun
    /\ \E n \in 0..MaxStored : \E shapes \in [1..n -> StoredShapes] :
          ServiceStarted(DefaultDbPath, StoredCollection(shapes))

NextQuery ==
    \/ QueryRequest
    \/ AddRequest

SpecQuery == InitQuery /\ [][NextQuery]_vars

(***************************************************************************)
(* The store service as a process of its own: GET /documents, POST         *)
(* /delete, GET /backup and POST /restore over the database directory.     *)
(***************************************************************************)
\* db_path = "/data/chroma_db" in restore_database
RestoreDbPath == "/data/chroma_db"

\* filename.endswith('.zip')
EndsWithZip(filename) == filename # <<>> /\ filename[Len(filename)] = ".zip"

\* a removal that leaves the directory in place
rmtree_keeps_directory(d, path) == d

\* shutil.rmtree(db_path), os.makedirs(db_path) and
\* shutil.unpack_archive(tmp_zip_path, db_path) on the host's directories
rmtree(d, path) == [d EXCEPT ![path] = NoDirectory]
makedirs(d, path) == [d EXCEPT ![path] = Directory(<<>>)]
unpack_archive(d, path, archive) == [d EXCEPT ![path] = Directory(archive.docs)]

\* the first checks of restore_database: no file, no file name, no .zip name
RestoreRejects(file) ==
    ~file.present \/ file.filename = <<>> \/ ~EndsWithZip(file.filename)

SaveOutcomes == {"ok", "raises"}

\* restore_database(): 400 without a file, with an empty file name or with a
\* name that does not end in .zip; otherwise the directory is removed and
\* re-created, the upload saved to a temporary file and unpacked into the
\* directory (500 when it cannot be saved or unpacked, and the temporary
\* file stays), the temporary file removed and the client and collection
\* opened on the directory again.
restore_database(d, path, file, save) ==
    IF RestoreRejects(file)
    THEN [status |-> 400, disk |-> d, client_path |-> path, restored |-> "",
          tmp_file |-> "none"]
    ELSE IF save = "raises" \/ ~file.archive.valid
    THEN [status |-> 500,
          disk |-> makedirs(rmtree(d, RestoreDbPath), RestoreDbPath),
          client_path |-> path, restored |-> "", tmp_file |-> "left"]
    ELSE [status |-> 200,
          disk |-> unpack_archive(makedirs(rmtree(d, RestoreDbPath), RestoreDbPath),
                                  RestoreDbPath, file.archive),
          client_path |-> RestoreDbPath, restored |-> RestoreDbPath,
          tmp_file |-> "removed"]

ArchivingOutcomes == {"ok", "make_archive_raises", "read_raises"}

\* backup_database(): the archive of the directory CHROMA_DB_PATH names,
\* 404 when there is no such directory.  The temporary file is removed in
\* the finally of the read; make_archive runs before that try.
backup_database(d, db_env, archiving) ==
    IF ~d[db_env].exists
    THEN [status |-> 404, archive |-> NoArchive, tmp_file |-> "none"]
    ELSE IF archiving = "make_archive_raises"
    THEN [status |-> 500, archive |-> NoArchive, tmp_file |-> "left"]
    ELSE IF archiving = "read_raises"
    THEN [status |-> 500, archive |-> NoArchive, tmp_file |-> "removed"]
    ELSE [status |-> 200, archive |-> [valid |-> TRUE, docs |-> d[db_env].docs],
          tmp_file |-> "removed"]

\* collection.update(ids, documents, metadatas) of the store library: the
\* document and the metadata of a held id are overwritten (the given keys
\* only, or the whole mapping); an id that is not held is ignored or
\* inserted.
collection_update(collection, doc_id, document, metadata, library) ==
    IF \E n \in 1..Len(collection) : collection[n].id = doc_id
    THEN [n \in 1..Len(collection) |->
            IF collection[n].id = doc_id
            THEN [id |-> doc_id, document |-> document,
                  metadata |-> IF library.metadata = "merged"
                               THEN metadata @@ collection[n].metadata
                               ELSE metadata]
            ELSE collection[n]]
    ELSE IF library.unknown_id = "inserted"
    THEN Append(collection, [id |-> doc_id, document |-> document,
                             metadata |-> metadata])
    ELSE collection

\* update_database(): 400 when id, document or metadata is missing or
\* empty; otherwise collection.update and success.
update_database(collection, doc_id, document, metadata, library) ==
    IF doc_id = NoId \/ document = <<>> \/ DOMAIN metadata = {}
    THEN [status |-> 400, collection |-> collection]
    ELSE [status |-> 200,
          collection |-> collection_update(collection, doc_id, document, metadata,
                                           library)]

Archived(n, text) ==
    [id |-> <<"archived", n>>, document |-> text,
     metadata |-> ("source" :> S("guide")) @@ ("verified" :> BoolV(TRUE))]

\* contents of the archives a client uploads
ArchiveContents ==
    { <<>>, <<Archived(1, <<"t10">>)>>,
      <<Archived(1, <<"t10">>), Archived(2, <<"t50">>)>> }

UploadedFiles ==
    { [present |-> FALSE, filename |-> <<>>, archive |-> NoArchive],
      [present |-> TRUE, filename |-> <<>>, archive |-> NoArchive],
      [present |-> TRUE, filename |-> <<"notes", ".txt">>, archive |-> NoArchive],
      [present |-> TRUE, filename |-> <<"backup", ".zip">>, archive |-> NoArchive] }
    \cup { [present |-> TRUE, filename |-> <<"backup", ".zip">>,
            archive |-> [valid |-> TRUE, docs |-> c]] : c \in ArchiveContents }

\* download_name='chroma_db_backup.zip': the file GET /backup sent, uploaded
\* again as it is
DownloadedFile(archive) ==
    [present |-> TRUE, filename |-> <<"chroma_db_backup", ".zip">>,
     archive |-> archive]

Uploads ==
    UploadedFiles
    \cup (IF downloaded.taken THEN {DownloadedFile(downloaded.archive)} ELSE {})

\* steps of a restore during which the directory of the live handle is
\* being replaced
Replacing == {"removed", "created", "unpacked"}

\* What a request gets through the collection handle.  While a restore is
\* replacing the directory the handle was opened on, the store library
\* serves what it still holds open, fails, or reads the directory as it is.
HandleViews ==
    IF in_flight.step \in Replacing /\ client_path = RestoreDbPath
    THEN { [ok |-> TRUE, docs |-> in_flight.old],
           [ok |-> FALSE, docs |-> <<>>],
           [ok |-> TRUE, docs |-> disk[client_path].docs] }
    ELSE { [ok |-> TRUE, docs |-> Collection] }

\* Where the answer to a request served while a restore is in flight came
\* from: the store as it was when the restore began, the uploaded archive,
\* or neither.
ServedFrom(docs) ==
    IF docs = in_flight.old THEN "old"
    ELSE IF docs = in_flight.file.archive.docs THEN "new"
    ELSE "other"

Seen(endpoint, outcome) ==
    IF in_flight.step = "idle" THEN seen ELSE seen \cup {<<endpoint, outcome>>}

\* POST /restore, handled without another request in between
RestoreRequest ==
    /\ in_flight.step = "idle"
    /\ restores < MaxRestores
    /\ restores' = restores + 1
    /\ \E file \in Uploads, save \in SaveOutcomes :
         \E res \in {restore_database(disk, client_path, file, save)} :
         /\ disk' = res.disk
         /\ client_path' = res.client_path
         /\ restored_to' = IF res.status = 200 THEN res.restored ELSE restored_to
         /\ response' = [NoResponse EXCEPT !.endpoint = "restore",
                                           !.status = res.status,
                                           !.request = file,
                                           !.archive = file.archive,
                                           !.tmp_file = res.tmp_file,
                                           !.served_at = "idle"]
    /\ UNCHANGED <<chroma_db_path, uuids, request_counter, supplied, downloaded,
                   in_flight, seen>>
    /\ UNCHANGED <<sync_vars, tool_vars>>

\* GET /backup
BackupRequest ==
    /\ \E archiving \in ArchivingOutcomes :
         \E res \in {backup_database(disk, chroma_db_path, archiving)} :
         /\ response' = [NoResponse EXCEPT !.endpoint = "backup",
                                           !.status = res.status,
                                           !.archive = res.archive,
                                           !.tmp_file = res.tmp_file,
                                           !.served_at = in_flight.step]
         /\ seen' = Seen("backup", IF res.status = 200
                                   THEN ServedFrom(res.archive.docs)
                                   ELSE IF res.status = 404 THEN "fails"
                                   ELSE "other")
    /\ UNCHANGED <<chroma_db_path, disk, client_path, uuids, request_counter,
                   restores, supplied, restored_to, downloaded, in_flight>>
    /\ UNCHANGED <<sync_vars, tool_vars>>

\* The caller of GET /backup keeps the archive it was sent
\* (chroma_db_backup.zip), to upload it again later.
KeepDownload ==
    /\ response.endpoint = "backup"
    /\ response.status = 200
    /\ downloaded' = [taken |-> TRUE, archive |-> response.archive,
                      held |-> Collection]
    /\ UNCHANGED <<chroma_db_path, disk, client_path, uuids, request_counter,
                   restores, response, supplied, restored_to, in_flight, seen>>
    /\ UNCHANGED <<sync_vars, tool_vars>>

\* GET /documents
DocumentsRequest ==
    /\ \E view \in HandleViews :
         /\ response' = [NoResponse EXCEPT
                            !.endpoint = "documents",
                            !.status = IF view.ok THEN 200 ELSE 500,
                            !.documents = get_all_documents(view.docs),
                            !.served_at = in_flight.step]
         /\ seen' = Seen("documents", IF view.ok THEN ServedFrom(view.docs)
                                      ELSE "fails")
    /\ UNCHANGED <<chroma_db_path, disk, client_path, uuids, request_counter,
                   restores, supplied, restored_to, downloaded, in_flight>>
    /\ UNCHANGED <<sync_vars, tool_vars>>

UnknownId == <<"unknown", 0>>

\* POST /delete: 400 without an id
DeleteRequest ==
    /\ in_flight.step = "idle"
    /\ \E doc_id \in {Collection[n].id : n \in 1..Len(Collection)}
                      \cup {UnknownId, NoId} :
         IF doc_id = NoId
         THEN /\ response' = [NoResponse EXCEPT !.endpoint = "delete",
                                                !.status = 400,
                                                !.collection_before = Collection,
                                                !.served_at = "idle"]
              /\ UNCHANGED disk
         ELSE LET res == delete_from_database(Collection, doc_id) IN
              /\ disk' = [disk EXCEPT ![client_path].docs = res.collection]
              /\ response' = [NoResponse EXCEPT !.endpoint = "delete",
                                                !.status = 200,
                                                !.id = doc_id,
                                                !.collection_before = Collection,
                                                !.served_at = "idle"]
    /\ UNCHANGED <<chroma_db_path, client_path, uuids, request_counter, restores,
                   supplied, restored_to, downloaded, in_flight, seen>>
    /\ UNCHANGED <<sync_vars, tool_vars>>

\* what callers of POST /update send
UpdateDocuments == {<<"t50">>, <<>>}
UpdateMetadatas == {("section" :> S("2")), <<>>}
\* what collection.update does with the metadata of a held id and with an
\* id that is not held
LibraryUpdates ==
    [metadata : {"replaced", "merged"}, unknown_id : {"ignored", "inserted"}]

\* POST /update
UpdateRequest ==
    /\ in_flight.step = "idle"
    /\ \E doc_id \in {Collection[n].id : n \in 1..Len(Collection)}
                      \cup {UnknownId, NoId},
          document \in UpdateDocuments, metadata \in UpdateMetadatas,
          library \in LibraryUpdates :
         \E res \in {update_database(Collection, doc_id, document, metadata,
                                     library)} :
         /\ disk' = [disk EXCEPT ![client_path].docs = res.collection]
         /\ response' = [NoResponse EXCEPT
                            !.endpoint = "update",
                            !.status = res.status,
                            !.request = ("document" :> document)
                                        @@ ("metadata" :> metadata),
                            !.id = doc_id,
                            !.collection_before = Collection,
                            !.served_at = "idle"]
    /\ UNCHANGED <<chroma_db_path, client_path, uuids, request_counter, restores,
                   supplied, restored_to, downloaded, in_flight, seen>>
    /\ UNCHANGED <<sync_vars, tool_vars>>

InitRestore ==
    /\ local = <<>>
    /\ remote = <<>>
    /\ ClientNotStarted
    /\ ToolsNotRun
    /\ \E path \in Paths : \E n \in 0..1 : \E shapes \in [1..n -> StoredShapes] :
          ServiceStarted(path, StoredCollection(shapes))

NextRestore ==
    \/ RestoreRequest
    \/ BackupRequest
    \/ DocumentsRequest
    \/ DeleteRequest
    \/ AddRequest

SpecRestore == InitRestore /\ [][NextRestore]_vars

\* Backups taken from the service and uploaded to it again.
NextRoundTrip ==
    \/ BackupRequest
    \/ KeepDownload
    \/ RestoreRequest
    \/ DeleteRequest

SpecRoundTrip == InitRestore /\ [][NextRoundTrip]_vars

\* The store service serving its document operations.
InitStore ==
    /\ local = <<>>
    /\ remote = <<>>
    /\ ClientNotStarted
    /\ ToolsNotRun
    /\ \E n \in 0..MaxStored : \E shapes \in [1..n -> StoredShapes] :
          ServiceStarted(DefaultDbPath, StoredCollection(shapes))

NextStore ==
    \/ UpdateRequest
    \/ DeleteRequest
    \/ DocumentsRequest

SpecStore == InitStore /\ [][NextStore]_vars

(***************************************************************************)
(* The probes: GET /health and GET /readiness.                             *)
(***************************************************************************)
\* memory_percent < 90
MemoryLimit == 90

\* psutil.virtual_memory().percent, or what the import or the call raised
MemoryReadings ==
    { [kind |-> "percent", percent |-> MemoryLimit - 1],
      [kind |-> "percent", percent |-> MemoryLimit],
      [kind |-> "import_error", percent |-> 0],
      [kind |-> "raises", percent |-> 0] }

\* What the calls of GET /health meet: client.heartbeat(),
\* collection.count() with the test query, the embedding function,
\* os.access on the database directory, the memory reading, CHROMA_DB_PATH
\* set in the environment or not.  GET /readiness calls
\* collection.heartbeat(): heartbeat() is a method of the client, and the
\* outcome of the call on the collection object is kept apart from the
\* state of the store (what client.heartbeat() would meet).
HealthProbes ==
    [client_heartbeat : {"ok", "raises"},
     collection_count : {"ok", "raises"},
     embedding : {"ok", "empty", "raises"},
     access : {"rw", "denied", "raises"},
     memory : MemoryReadings,
     env_set : BOOLEAN]

ReadinessProbes ==
    [client_heartbeat : {"ok", "raises"},
     collection_count : {"ok", "raises"},
     collection_heartbeat : {"ok", "raises"}]

\* the status of check 6
memory_usage(memory) ==
    IF memory.kind = "import_error" THEN "skipped"
    ELSE IF memory.kind = "raises" THEN "error"
    ELSE IF memory.percent < MemoryLimit THEN "healthy"
    ELSE "warning"

\* health_check(): the seven checks; overall_healthy is cleared by checks 2
\* to 5 only, no branch of checks 6 and 7 assigns it.
health_check(collection, d, db_env, probe) ==
    LET client_ok == probe.client_heartbeat = "ok"
        collection_ok == probe.collection_count = "ok"
        embedding_ok == probe.embedding = "ok"
        storage_ok == d[db_env].exists /\ probe.access = "rw"
        overall_healthy == /\ client_ok
                           /\ collection_ok
                           /\ embedding_ok
                           /\ storage_ok
        Status(ok) == IF ok THEN "healthy" ELSE "unhealthy"
    IN  [status |-> IF overall_healthy THEN 200 ELSE 503,
         overall |-> Status(overall_healthy),
         checks |-> [flask_server |-> "healthy",
                     chromadb_client |-> Status(client_ok),
                     chromadb_collection |-> Status(collection_ok),
                     embedding_model |-> Status(embedding_ok),
                     database_storage |-> Status(storage_ok),
                     memory_usage |-> memory_usage(probe.memory),
                     environment |-> IF probe.env_set THEN "healthy"
                                     ELSE "warning"],
         document_count |-> IF collection_ok THEN Len(collection) ELSE -1]

\* readiness_check(): collection.heartbeat(), then collection.count(); 503
\* when either raises.
readiness_check(collection, probe) ==
    IF probe.collection_heartbeat = "ok" /\ probe.collection_count = "ok"
    THEN [status |-> 200, overall |-> "ready", document_count |-> Len(collection)]
    ELSE [status |-> 503, overall |-> "not_ready", document_count |-> -1]

\* CHROMA_DB_PATH is set when the service runs on another path than the
\* default
HealthProbesHere ==
    {p \in HealthProbes : chroma_db_path # DefaultDbPath => p.env_set}

\* GET /health
HealthRequest ==
    /\ in_flight.step = "idle"
    /\ \E probe \in HealthProbesHere :
         \E res \in {health_check(Collection, disk, chroma_db_path, probe)} :
         response' = [NoResponse EXCEPT !.endpoint = "health",
                                        !.status = res.status,
                                        !.request = probe,
                                        !.overall = res.overall,
                                        !.checks = res.checks,
                                        !.document_count = res.document_count,
                                        !.served_at = "idle"]
    /\ UNCHANGED <<chroma_db_path, disk, client_path, uuids, request_counter,
                   restores, supplied, restored_to, downloaded, in_flight, seen>>
    /\ UNCHANGED <<sync_vars, tool_vars>>

\* GET /readiness
ReadinessRequest ==
    /\ in_flight.step = "idle"
    /\ \E probe \in ReadinessProbes :
         \E res \in {readiness_check(Collection, probe)} :
         response' = [NoResponse EXCEPT !.endpoint = "readiness",
                                        !.status = res.status,
                                        !.request = probe,
                                        !.overall = res.overall,
                                        !.document_count = res.document_count,
                                        !.served_at = "idle"]
    /\ UNCHANGED <<chroma_db_path, disk, client_path, uuids, request_counter,
                   restores, supplied, restored_to, downloaded, in_flight, seen>>
    /\ UNCHANGED <<sync_vars, tool_vars>>

NextHealth ==
    \/ HealthRequest
    \/ ReadinessRequest

SpecHealth == InitRestore /\ [][NextHealth]_vars

(***************************************************************************)
(* POST /restore step by step, with GET /backup and GET /documents served  *)
(* by other threads of the server in between.                              *)
(***************************************************************************)
\* the request arrives: 400 from the checks on the upload, or the restore
\* begins
RestoreBegin ==
    /\ in_flight.step = "idle"
    /\ restores < MaxRestores
    /\ restores' = restores + 1
    /\ \E file \in UploadedFiles :
         IF RestoreRejects(file)
         THEN /\ response' = [NoResponse EXCEPT !.endpoint = "restore",
                                                !.status = 400,
                                                !.request = file,
                                                !.archive = file.archive,
                                                !.served_at = "idle"]
              /\ UNCHANGED <<in_flight, seen>>
         ELSE /\ in_flight' = [step |-> "validated", file |-> file,
                               old |-> Collection]
              /\ seen' = {}
              /\ UNCHANGED response
    /\ UNCHANGED <<chroma_db_path, disk, client_path, uuids, request_counter,
                   supplied, restored_to, downloaded>>
    /\ UNCHANGED <<sync_vars, tool_vars>>

\* if os.path.exists(db_path): shutil.rmtree(db_path)
RestoreRmtree ==
    /\ in_flight.step = "validated"
    /\ disk' = IF disk[RestoreDbPath].exists THEN rmtree(disk, RestoreDbPath)
               ELSE disk
    /\ in_flight' = [in_flight EXCEPT !.step = "removed"]
    /\ UNCHANGED <<chroma_db_path, client_path, uuids, request_counter, restores,
                   response, supplied, restored_to, downloaded, seen>>
    /\ UNCHANGED <<sync_vars, tool_vars>>

\* os.makedirs(db_path)
RestoreMakedirs ==
    /\ in_flight.step = "removed"
    /\ disk' = makedirs(disk, RestoreDbPath)
    /\ in_flight' = [in_flight EXCEPT !.step = "created"]
    /\ UNCHANGED <<chroma_db_path, client_path, uuids, request_counter, restores,
                   response, supplied, restored_to, downloaded, seen>>
    /\ UNCHANGED <<sync_vars, tool_vars>>

\* the upload is saved and unpacked and the temporary file removed; when
\* saving or unpacking raises, the request ends with 500
RestoreUnpack ==
    /\ in_flight.step = "created"
    /\ \E save \in SaveOutcomes :
         IF save = "raises" \/ ~in_flight.file.archive.valid
         THEN /\ response' = [NoResponse EXCEPT !.endpoint = "restore",
                                                !.status = 500,
                                                !.request = in_flight.file,
                                                !.archive = in_flight.file.archive,
                                                !.tmp_file = "left",
                                                !.served_at = "idle"]
              /\ in_flight' = NoRestore
              /\ UNCHANGED disk
         ELSE /\ disk' = unpack_archive(disk, RestoreDbPath, in_flight.file.archive)
              /\ in_flight' = [in_flight EXCEPT !.step = "unpacked"]
              /\ UNCHANGED response
    /\ UNCHANGED <<chroma_db_path, client_path, uuids, request_counter, restores,
                   supplied, restored_to, downloaded, seen>>
    /\ UNCHANGED <<sync_vars, tool_vars>>

\* global client, collection: both are opened on db_path again
RestoreReopen ==
    /\ in_flight.step = "unpacked"
    /\ client_path' = RestoreDbPath
    /\ in_flight' = [in_flight EXCEPT !.step = "reopened"]
    /\ UNCHANGED <<chroma_db_path, disk, uuids, request_counter, restores,
                   response, supplied, restored_to, downloaded, seen>>
    /\ UNCHANGED <<sync_vars, tool_vars>>

\* return jsonify({'success': True, ...})
RestoreReturn ==
    /\ in_flight.step = "reopened"
    /\ response' = [NoResponse EXCEPT !.endpoint = "restore",
                                      !.status = 200,
                                      !.request = in_flight.file,
                                      !.archive = in_flight.file.archive,
                                      !.tmp_file = "removed",
                                      !.served_at = "idle"]
    /\ restored_to' = RestoreDbPath
    /\ in_flight' = NoRestore
    /\ UNCHANGED <<chroma_db_path, disk, client_path, uuids, request_counter,
                   restores, supplied, downloaded, seen>>
    /\ UNCHANGED <<sync_vars, tool_vars>>

InitConcurrent ==
    /\ local = <<>>
    /\ remote = <<>>
    /\ ClientNotStarted
    /\ ToolsNotRun
    /\ \E n \in 0..1 : \E shapes \in [1..n -> StoredShapes] :
          ServiceStarted(DefaultDbPath, StoredCollection(shapes))

NextConcurrent ==
    \/ RestoreBegin
    \/ RestoreRmtree
    \/ RestoreMakedirs
    \/ RestoreUnpack
    \/ RestoreReopen
    \/ RestoreReturn
    \/ BackupRequest
    \/ DocumentsRequest

SpecConcurrent == InitConcurrent /\ [][NextConcurrent]_vars

\* Queries served among the other requests of the service, one request at
\* a time.
NextService ==
    \/ QueryRequest
    \/ DocumentsRequest
    \/ DeleteRequest
    \/ UpdateRequest
    \/ BackupRequest
    \/ RestoreRequest
    \/ ReadinessRequest

SpecService == InitConcurrent /\ [][NextService]_vars

(***************************************************************************)
(* Vocabulary of the properties.                                           *)
(***************************************************************************)
Docs(store) == {store[n] : n \in 1..Len(store)}
Keys(store) == {CompositeKey(d) : d \in Docs(store)}

\* A run got its two listings, reached the summary, and no call failed.
CleanRunDone == pc = "done" /\ fail_count = 0

\* The run has ended after the listings were fetched.
RunEndedPastListings == pc \in {"done", "crashed"}

\* The instant a timestamp value denotes when read as ISO-8601 with 'Z' as
\* +00:00 and a missing offset as UTC; -1 when missing or unparseable.
InstantOf(v) ==
    IF v[1] # "str" THEN -1
    ELSE LET toks == v[2] IN
         IF Len(toks) = 1 /\ toks[1] \in BodyTokens THEN TimeOf(toks[1])
         ELSE IF Len(toks) = 2 /\ toks[1] \in BodyTokens /\ toks[2] = "Z"
         THEN TimeOf(toks[1])
         ELSE IF Len(toks) = 2 /\ toks[1] \in BodyTokens /\ toks[2] \in OffsetTokens
         THEN TimeOf(toks[1]) - OffsetOf(toks[2])
         ELSE -1
UpdatedAt(doc) == InstantOf(Get(doc.metadata, "updated_at"))

\* Both timestamps are written the same way (both with or both without an
\* offset) and the first is strictly later.
SameStyle(a, b) == get_timestamp(a)[1] = get_timestamp(b)[1]
StrictlyLater(a, b) ==
    /\ UpdatedAt(a) >= 0
    /\ UpdatedAt(b) >= 0
    /\ SameStyle(a, b)
    /\ UpdatedAt(a) > UpdatedAt(b)

\* The identity of a sync-unit as the data model states it: the source and
\* the section / page within the source.
UnitKey(doc) ==
    <<Get(doc.metadata, "source"), Get(doc.metadata, "section"),
      Get(doc.metadata, "page_number")>>

PlanEntries == {plan[n] : n \in 1..Len(plan)}
CallEntries == {calls[n] : n \in 1..Len(calls)}

(***************************************************************************)
(* C1.  Idempotence: when two runs in succession both reach the summary    *)
(* with every call succeeding (the local store never changes), the second  *)
(* run reports added = updated = deleted = 0.                              *)
(***************************************************************************)
C1_SecondRunReportsNothing ==
    \A n \in 2..Len(history) :
        ( /\ history[n-1].outcome = "done" /\ history[n-1].failed = 0
          /\ history[n].outcome = "done" /\ history[n].failed = 0 )
        => ( history[n].added = 0 /\ history[n].updated = 0
             /\ history[n].deleted = 0 )

(***************************************************************************)
(* C2.  After a run in which no call failed, every document that was       *)
(* present only locally (no remote document had its composite key) has a   *)
(* remote document with the same text and the same metadata.               *)
(***************************************************************************)
C2_LocalOnlyCopiedVerbatim ==
    CleanRunDone =>
        \A l \in Docs(local_at_start) :
            CompositeKey(l) \notin Keys(remote_at_start)
            => \E r \in Docs(remote) :
                   r.document = l.document /\ r.metadata = l.metadata

(***************************************************************************)
(* C3.  After a run in which no call failed, for every document present on *)
(* both sides whose local updated_at is strictly later than the remote     *)
(* one, the remote store holds the local text under that key.              *)
(***************************************************************************)
C3_NewerLocalReachesRemote ==
    CleanRunDone =>
        \A l \in Docs(local_at_start), r \in Docs(remote_at_start) :
            (CompositeKey(l) = CompositeKey(r) /\ StrictlyLater(l, r))
            => \E r2 \in Docs(remote) :
                   CompositeKey(r2) = CompositeKey(l) /\ r2.document = l.document

(***************************************************************************)
(* C4.  For every document present on both sides whose remote updated_at   *)
(* is strictly later than the local one, the run issues no delete for the  *)
(* remote document and it is still in the remote store, unchanged, when    *)
(* the run ends.                                                           *)
(***************************************************************************)
C4_NewerRemoteUntouched ==
    RunEndedPastListings =>
        \A l \in Docs(local_at_start), r \in Docs(remote_at_start) :
            (CompositeKey(l) = CompositeKey(r) /\ StrictlyLater(r, l))
            => /\ r \in Docs(remote)
               /\ \A c \in CallEntries : ~(c.op = "delete" /\ c.id = r.id)

(***************************************************************************)
(* C5.  After a run in which no call failed, no document that was present  *)
(* remotely without a local counterpart is still in the remote store.      *)
(***************************************************************************)
C5_RemoteOnlyRemoved ==
    CleanRunDone =>
        \A r \in Docs(remote_at_start) :
            CompositeKey(r) \notin Keys(local_at_start)
            => \A r2 \in Docs(remote) : r2.id # r.id

(***************************************************************************)
(* C6.  Convergence: after a run in which no call failed, the remote store *)
(* holds exactly one document for each composite key held locally and no   *)
(* document for any other key.                                             *)
(***************************************************************************)
C6_Converged ==
    CleanRunDone =>
        /\ \A k \in Keys(local) :
               Cardinality({r \in Docs(remote) : CompositeKey(r) = k}) = 1
        /\ Keys(remote) \subseteq Keys(local)

(***************************************************************************)
(* C7.  Timestamp decision table: for a key present in both listings the   *)
(* run chooses update exactly when the local updated_at parses and the     *)
(* remote one is missing, unparseable or strictly earlier; otherwise it    *)
(* chooses skip and issues no call for the key.                            *)
(***************************************************************************)
TableSaysUpdate(local_doc, remote_doc) ==
    /\ UpdatedAt(local_doc) >= 0
    /\ \/ UpdatedAt(remote_doc) < 0
       \/ UpdatedAt(remote_doc) < UpdatedAt(local_doc)

C7_DecisionTable ==
    \A e \in PlanEntries :
        e.action \in {"update", "skip", "raise"}
        => LET local_doc == Lookup(local_doc_map, e.key)
               remote_doc == Lookup(remote_doc_map, e.key)
           IN IF TableSaysUpdate(local_doc, remote_doc)
              THEN e.action = "update"
              ELSE /\ e.action = "skip"
                   /\ \A c \in CallEntries : c.key # e.key

(***************************************************************************)
(* C8.  Cross-store identity: the run pairs a local with a remote document *)
(* only if they have the same source and the same section / page, and a    *)
(* local and a remote document that agree on these are never planned as an *)
(* add or a delete.                                                        *)
(***************************************************************************)
C8_PairsOnlySameUnit ==
    /\ \A e \in PlanEntries :
           e.action \in {"update", "skip", "raise"}
           => UnitKey(Lookup(local_doc_map, e.key))
                = UnitKey(Lookup(remote_doc_map, e.key))
    /\ \A e \in PlanEntries :
           e.action \in {"add", "delete"}
           => ~ \E l \in Docs(local_documents.documents),
                   r \in Docs(remote_documents.documents) :
                     /\ UnitKey(l) = UnitKey(r)
                     /\ CompositeKey(l) = e.key

(***************************************************************************)
(* C9.  If a listing request fails (connection error, error status, or a   *)
(* response with success false) the run ends without any add or delete     *)
(* request and both stores are as they were.                               *)
(***************************************************************************)
ListingFailed == \E n \in 1..Len(fetch_log) : fetch_log[n] # "ok"

C9_FailedListingAborts ==
    ListingFailed =>
        /\ pc = "aborted"
        /\ calls = <<>>
        /\ plan = <<>>
        /\ remote = remote_at_start
        /\ local = local_at_start

\* The remote listing fails after the local one succeeded, with documents
\* on both sides that a run would have had to add and delete.
C9_Witness ==
    /\ pc = "aborted"
    /\ Len(fetch_log) = 2
    /\ fetch_log[1] = "ok"
    /\ fetch_log[2] = "http_error"
    /\ local # <<>>
    /\ remote # <<>>
    /\ Keys(local) \cap Keys(remote) = {}

(***************************************************************************)
(* C10.  Past the listings, each failed add, update or delete adds exactly *)
(* 1 to the failure count, and when the run has ended every key of the     *)
(* local listing and every remote-only key has been processed.             *)
(***************************************************************************)
ProcessedKeys == {e.key : e \in {x \in PlanEntries : x.action # "raise"}}
MapKeys(d) == {d[n][1] : n \in 1..Len(d)}

C10_EveryKeyProcessed ==
    /\ pc \in {"sync", "done", "crashed"}
       => fail_count = Cardinality({n \in 1..Len(plan) :
                                      plan[n].action # "raise" /\ ~plan[n].ok})
    /\ RunEndedPastListings
       => ProcessedKeys = MapKeys(local_doc_map) \cup MapKeys(remote_doc_map)

(***************************************************************************)
(* C11.  Update is not transactional: when the run updates a key, the      *)
(* remote delete succeeds and the following remote add fails, the deleted  *)
(* remote copy is absent from the remote store for the rest of the run     *)
(* (the store holds for that key only what it held before, minus that      *)
(* copy), the failure is counted once, the update is not counted, and no   *)
(* call puts the old copy back.                                            *)
(***************************************************************************)
PastListings == pc \in {"sync", "done", "crashed"}

DeleteCallOf(e) ==
    {c \in CallEntries : c.op = "delete" /\ c.key = e.key /\ c.id = e.remote_id}
AddCallsOf(e) == {c \in CallEntries : c.op = "add" /\ c.key = e.key}

FailedUpdates == {e \in PlanEntries : e.action = "update" /\ ~e.ok}
HalfDoneUpdates == {e \in FailedUpdates : \E c \in DeleteCallOf(e) : c.ok}

DocsOfKey(store, key) == {d \in Docs(store) : CompositeKey(d) = key}

FailuresTallied ==
    /\ fail_count = Cardinality({n \in 1..Len(plan) :
                                   plan[n].action # "raise" /\ ~plan[n].ok})
    /\ updated_count = Cardinality({n \in 1..Len(plan) :
                                      plan[n].action = "update" /\ plan[n].ok})

C11_UpdateNotTransactional ==
    PastListings =>
        /\ FailuresTallied
        /\ \A e \in HalfDoneUpdates :
               /\ \A r \in Docs(remote) : r.id # e.remote_id
               /\ DocsOfKey(remote, e.key)
                    = {r \in DocsOfKey(remote_at_start, e.key) : r.id # e.remote_id}
               /\ \A c \in AddCallsOf(e) : c.id = e.local_id /\ ~c.ok

\* A run reached its summary after an update of a key with one remote copy
\* lost that copy: delete succeeded, add failed.
C11_Witness ==
    /\ pc = "done"
    /\ \E e \in HalfDoneUpdates :
           /\ Cardinality(DocsOfKey(remote_at_start, e.key)) = 1
           /\ DocsOfKey(remote, e.key) = {}
           /\ AddCallsOf(e) # {}
    /\ fail_count = 1
    /\ updated_count = 0

(***************************************************************************)
(* C12.  As stated: when the run updates a key and a call of the update    *)
(* fails, the failure is counted and the remote copy is left as it was.    *)
(***************************************************************************)
C12_FailedUpdateLeavesRemoteCopy ==
    PastListings =>
        /\ FailuresTallied
        /\ \A e \in FailedUpdates :
               \E r \in Docs(remote) :
                   r.id = e.remote_id /\ r = Lookup(remote_doc_map, e.key)

(***************************************************************************)
(* C12, amended.  When the run updates a key and the remote delete fails,  *)
(* the failure is counted, no add is issued for that key and the remote    *)
(* store holds the same documents for that key as before the run.          *)
(***************************************************************************)
FailedDeletesOfUpdates ==
    {e \in FailedUpdates : \E c \in DeleteCallOf(e) : ~c.ok}

C12_FailedDeleteLeavesRemoteCopy ==
    PastListings =>
        /\ FailuresTallied
        /\ \A e \in FailedDeletesOfUpdates :
               /\ AddCallsOf(e) = {}
               /\ Lookup(remote_doc_map, e.key) \in Docs(remote)
               /\ DocsOfKey(remote, e.key) = DocsOfKey(remote_at_start, e.key)

C12_Witness ==
    /\ pc = "done"
    /\ FailedDeletesOfUpdates # {}
    /\ fail_count = 1
    /\ calls # <<>>
    /\ remote = remote_at_start

(***************************************************************************)
(* C13.  Within one run no operation is retried: for every composite key   *)
(* the run issues at most one remote add call and at most one remote       *)
(* delete call, whether or not those calls fail.                           *)
(***************************************************************************)
CallsFor(op, key) == {n \in 1..Len(calls) : calls[n].op = op /\ calls[n].key = key}

C13_NoRetry ==
    \A c \in CallEntries :
        /\ Cardinality(CallsFor("add", c.key)) <= 1
        /\ Cardinality(CallsFor("delete", c.key)) <= 1

\* A run reached its summary with a failed add and a failed delete.
C13_Witness ==
    /\ pc = "done"
    /\ \E c \in CallEntries : c.op = "add" /\ ~c.ok
    /\ \E c \in CallEntries : c.op = "delete" /\ ~c.ok

(***************************************************************************)
(* C14.  At the end of every run that got past the listings, added +       *)
(* updated + skipped + deleted + failed equals the number of distinct      *)
(* composite keys in the union of the two listings, each key being counted *)
(* by exactly one plan entry.                                              *)
(***************************************************************************)
ListedKeys ==
    Keys(local_documents.documents) \cup Keys(remote_documents.documents)

C14_CountsPartitionKeys ==
    RunEndedPastListings =>
        /\ added_count + updated_count + skipped_count + deleted_count + fail_count
             = Cardinality(ListedKeys)
        /\ \A k \in ListedKeys :
               Cardinality({n \in 1..Len(plan) :
                              plan[n].key = k /\ plan[n].action # "raise"}) = 1

(***************************************************************************)
(* C15.  A run only reads the local store: every add and delete call it    *)
(* issues targets the remote store, and the local store is at every point  *)
(* of the run what it was when the run started.                            *)
(***************************************************************************)
C15_LocalStoreOnlyRead ==
    /\ local = local_at_start
    /\ \A c \in CallEntries : c.url = "REMOTE_URL"

\* A run reached its summary having added one document and updated another.
C15_Witness ==
    /\ pc = "done"
    /\ \E e \in PlanEntries : e.action = "add" /\ e.ok
    /\ \E e \in PlanEntries : e.action = "update" /\ e.ok
    /\ Len(local) >= 2

(***************************************************************************)
(* C16.  Once both listings are fetched the run reaches its final count    *)
(* report: a run that has stopped without the report is one whose listing  *)
(* check failed.                                                           *)
(***************************************************************************)
RunStoppedWithoutReport == pc \in {"aborted", "crashed"}

C16_OnlyListingCheckEndsRunEarly ==
    RunStoppedWithoutReport => ListingFailed

(***************************************************************************)
(* C17.  Two-phase retrieval: when the verified-filtered query returns,    *)
(* POST /query answers with its result as it is exactly when that result   *)
(* is non-empty and its top distance is strictly below 0.5; in every other *)
(* case it issues the unfiltered query and answers with that result.       *)
(***************************************************************************)
Requested(field) == Get(response.request, field)
RequestedN ==
    IF "n_results" \in DOMAIN response.request THEN response.request["n_results"]
    ELSE IntV(DefaultNResults)

VerifiedResult == collection_query(Collection, Requested("query"), RequestedN, TRUE, "ok").hits
UnfilteredResult == collection_query(Collection, Requested("query"), RequestedN, FALSE, "ok").hits

AsReturned(hits) ==
    [n \in 1..Len(hits) |->
        [id |-> hits[n].id, document |-> hits[n].document,
         distance |-> hits[n].distance]]

QueryAnswered ==
    /\ response'.endpoint = "query"
    /\ request_counter'.total = request_counter.total + 1

C19_ListRoundTrip ==
    (response.endpoint = "query" /\ response.status = 200) =>
        \A n \in 1..Len(response.results), m \in 1..Len(supplied) :
            supplied[m].id = response.results[n].id
            => \A k \in DOMAIN supplied[m].metadata :
                   response.results[n].metadata[k] = supplied[m].metadata[k]

(***************************************************************************)
(* C20.  After a POST /restore has returned success, the live handle is    *)
(* open on the directory that was repopulated, and every later list, add,  *)
(* delete and backup request operates on that directory's data.            *)
(***************************************************************************)
RestoredData == disk[restored_to].docs

C20_RequestsSeeRestoredData ==
    restored_to # "" =>
        /\ client_path = restored_to
        /\ response.endpoint = "documents"
           => response.documents = get_all_documents(RestoredData)
        /\ response.endpoint = "backup"
           => response.status = 200 /\ response.archive.docs = RestoredData
        /\ (response.endpoint = "add" /\ response.status = 200)
           => \E n \in 1..Len(RestoredData) : RestoredData[n].id = response.id
        /\ (response.endpoint = "delete" /\ response.status = 200)
           => \A n \in 1..Len(RestoredData) : RestoredData[n].id # response.id

(***************************************************************************)
(* C21.  Backup/restore round trip: when the archive that GET /backup sent *)
(* while the store held the documents D is uploaded to POST /restore and   *)
(* the restore succeeds, the store holds exactly D, with the same ids,     *)
(* texts and metadata, whatever directory the service is configured with.  *)
(***************************************************************************)
C21_BackupRestoreRoundTrip ==
    (/\ response.endpoint = "restore"
     /\ response.status = 200
     /\ downloaded.taken
     /\ response.request = DownloadedFile(downloaded.archive))
    => Collection = downloaded.held

(***************************************************************************)
(* C22.  POST /restore answers 400 to every upload that is not a valid     *)
(* archive: no file field, an empty file name, a name that does not end    *)
(* in .zip, and a file named *.zip whose content cannot be unpacked.       *)
(***************************************************************************)
NotAValidArchive(file) == RestoreRejects(file) \/ ~file.archive.valid

C22_InvalidArchiveRejected ==
    (response.endpoint = "restore" /\ NotAValidArchive(response.request))
    => response.status = 400

(***************************************************************************)
(* C23.  After GET /backup has returned, with the archive or with an       *)
(* error raised while the archive was created or read, the temporary file  *)
(* the handler created no longer exists.                                   *)
(***************************************************************************)
C23_BackupLeavesNoTmpFile ==
    response.endpoint = "backup" => response.tmp_file # "left"

(***************************************************************************)
(* C24.  After POST /restore has returned, with success or with an error   *)
(* raised while the upload was saved or unpacked, the temporary zip file   *)
(* the handler created no longer exists.                                   *)
(***************************************************************************)
C24_RestoreLeavesNoTmpFile ==
    response.endpoint = "restore" => response.tmp_file # "left"

(***************************************************************************)
(* C28.  POST /delete with an id the store does not hold never answers     *)
(* success, and leaves the store as it was.                                *)
(***************************************************************************)
Holds(collection, doc_id) == \E n \in 1..Len(collection) : collection[n].id = doc_id

C28_DeleteUnknownFails ==
    (/\ response.endpoint = "delete"
     /\ response.id # NoId
     /\ ~Holds(response.collection_before, response.id))
    => /\ response.status # 200
       /\ Collection = response.collection_before

(***************************************************************************)
(* C29.  POST /update with id, text and metadata: for an id the store does *)
(* not hold the request fails and no document is created; for an id it     *)
(* holds the request succeeds, that document has the given text and        *)
(* exactly the given metadata under the same id, and every other document  *)
(* is as before.                                                           *)
(***************************************************************************)
ReplacedInFull(collection, doc_id, document, metadata) ==
    [n \in 1..Len(collection) |->
        IF collection[n].id = doc_id
        THEN [id |-> doc_id, document |-> document, metadata |-> metadata]
        ELSE collection[n]]

C29_UpdateReplacesOrNotFound ==
    (/\ response.endpoint = "update"
     /\ response.id # NoId
     /\ response.request.document # <<>>
     /\ response.request.metadata # <<>>)
    => IF Holds(response.collection_before, response.id)
       THEN /\ response.status = 200
            /\ Collection = ReplacedInFull(response.collection_before, response.id,
                                           response.request.document,
                                           response.request.metadata)
       ELSE /\ response.status # 200
            /\ Collection = response.collection_before

(***************************************************************************)
(* C30.  POST /add with the text or the metadata absent or empty answers   *)
(* 400, leaves the documents of the store as they were and assigns no id.  *)
(***************************************************************************)
C30_AddWithoutTextOrMetadataRejected ==
    (/\ response.endpoint = "add"
     /\ \/ ~response.request.is_json
        \/ response.request.document = <<>>
        \/ response.request.metadata = <<>>)
    => /\ response.status = 400
       /\ Collection = response.collection_before
       /\ response.id = NoId

(***************************************************************************)
(* C25.  Restore is not atomic.  A request served while a POST /restore is *)
(* in flight is served from the old store before the directory is          *)
(* removed, fails between the removal and the re-creation of the           *)
(* directory (GET /backup: 404), and is served from the new store once the *)
(* archive is unpacked (GET /backup) or the handle is reopened             *)
(* (GET /documents); through the old handle, between removal and           *)
(* reopening, GET /documents gets the old documents, the directory as it   *)
(* is, or an error.  In one restore all three outcomes are reached.        *)
(***************************************************************************)
ServedDuringRestore(endpoint) ==
    /\ in_flight.step # "idle"
    /\ in_flight' = in_flight
    /\ response'.endpoint = endpoint
    /\ response'.served_at = in_flight.step

NewStore == in_flight.file.archive.docs

C25_RestoreNotAtomic ==
    [][ /\ (ServedDuringRestore("backup") /\ response'.status # 500)
           => CASE in_flight.step = "validated" ->
                     /\ response'.status = 200
                     /\ response'.archive.docs = in_flight.old
                [] in_flight.step = "removed" ->
                     response'.status = 404
                [] in_flight.step = "created" ->
                     /\ response'.status = 200
                     /\ response'.archive.docs = <<>>
                [] OTHER ->
                     /\ response'.status = 200
                     /\ response'.archive.docs = NewStore
        /\ ServedDuringRestore("documents")
           => CASE in_flight.step = "validated" ->
                     /\ response'.status = 200
                     /\ response'.documents = get_all_documents(in_flight.old)
                [] in_flight.step = "reopened" ->
                     /\ response'.status = 200
                     /\ response'.documents = get_all_documents(NewStore)
                [] OTHER ->
                     \/ response'.status = 500
                     \/ response'.documents = get_all_documents(in_flight.old)
                     \/ response'.documents
                          = get_all_documents(disk[RestoreDbPath].docs) ]_vars

\* One restore of an archive that differs from the store, during which
\* GET /backup was served from the old store, failed and was served from
\* the new store, and GET /documents was served from the old and from the
\* new store.
C25_Witness ==
    /\ in_flight.step = "reopened"
    /\ in_flight.old # <<>>
    /\ NewStore # <<>>
    /\ in_flight.old # NewStore
    /\ {<<"backup", "old">>, <<"backup", "fails">>, <<"backup", "new">>,
        <<"documents", "old">>, <<"documents", "new">>} \subseteq seen

(***************************************************************************)
(* C26.  GET /health reports the overall status healthy with HTTP 200 if   *)
(* and only if every check whose status is neither "skipped" nor           *)
(* "warning" is healthy; when a check ends in any other status (unhealthy  *)
(* or error), the overall status is unhealthy and the answer is HTTP 503.  *)
(***************************************************************************)
Counted(checks) == {c \in DOMAIN checks : checks[c] \notin {"skipped", "warning"}}

C26_HealthAggregation ==
    response.endpoint = "health" =>
        /\ (response.overall = "healthy" /\ response.status = 200)
           <=> \A c \in Counted(response.checks) : response.checks[c] = "healthy"
        /\ (\E c \in Counted(response.checks) : response.checks[c] # "healthy")
           => (response.overall = "unhealthy" /\ response.status = 503)

(***************************************************************************)
(* C27.  GET /readiness answers ready with the number of documents the     *)
(* store holds whenever the store is reachable and can be counted, and     *)
(* answers 503 not_ready exactly when the heartbeat of the store or the    *)
(* count fails.                                                            *)
(***************************************************************************)
StoreReachable == response.request.client_heartbeat = "ok"
StoreCountable == response.request.collection_count = "ok"

C27_Readiness ==
    response.endpoint = "readiness" =>
        IF StoreReachable /\ StoreCountable
        THEN /\ response.status = 200
             /\ response.overall = "ready"
             /\ response.document_count = Len(Collection)
        ELSE /\ response.status = 503
             /\ response.overall = "not_ready"

(***************************************************************************)
(* C31.  sync_db.py started with a positional argument other than push or  *)
(* pull reports a usage error, runs neither push nor pull, and exits with  *)
(* a nonzero status.                                                       *)
(***************************************************************************)
C31_InvalidArgumentIsUsageError ==
    (invocation.argv # <<>> /\ invocation.direction \notin {"push", "pull"})
    => /\ invocation.usage_error
       /\ invocation.ran = "none"
       /\ ExitStatus # 0

(***************************************************************************)
(* C32.  When the copy of the pre-built database fails in                  *)
(* run_initial_setup, at any point, the flag file is not created and the   *)
(* next call of run_initial_setup attempts the copy again.                 *)
(***************************************************************************)
C32_FailedCopyIsRetried ==
    /\ setup.outcome = "failed" => ~flag_file
    /\ setup.previous = "failed" => setup.copy_attempted

(***************************************************************************)
(* C33.  A call of run_initial_setup in a state where the flag file exists *)
(* changes nothing: no copy is attempted, the destination database and the *)
(* flag file are as before, for any number of calls.                       *)
(***************************************************************************)
SetupCalled == setup'.calls = setup.calls + 1

C33_MigrationRunsOnce ==
    [][ (flag_file /\ SetupCalled)
        => /\ UNCHANGED <<source_db, destination_db, flag_file>>
           /\ setup'.outcome = "skipped"
           /\ ~setup'.copy_attempted ]_vars

\* The database was copied by one call, and two later calls found the flag
\* file and left the copy alone.
C33_Witness ==
    /\ setup.calls = 3
    /\ setup.outcome = "skipped"
    /\ setup.previous = "skipped"
    /\ flag_file
    /\ destination_db = source_db
    /\ source_db.exists


(***************************************************************************)
(* C34.  After find_and_remove_duplicates has run with the service         *)
(* reachable, the remote store holds for every text exactly one document,  *)
(* the first one in listing order; every other document with that text has *)
(* been deleted.                                                           *)
(***************************************************************************)
\* the documents that are the first of their text in the listing
FirstOfEachText(docs) ==
    SelectSeq(docs, LAMBDA d :
        \A n \in 1..Len(docs) :
            docs[n].document = d.document
            => \E m \in 1..n : docs[m] = d)

C34_CleanupKeepsFirstOfEachText ==
    (cleanup.pc = "done" /\ ~cleanup.unreachable /\ cleanup.listing = "ok")
    => remote = FirstOfEachText(cleanup.at_start)


(***************************************************************************)
(* C35.  After every request total = successful_queries + failed_queries;  *)
(* a POST /query adds 1 to total and 1 to exactly one of the other two     *)
(* counters, also when the body is missing; no other endpoint changes a    *)
(* counter.                                                                *)
(***************************************************************************)
C35_RequestCounters ==
    [][ /\ request_counter'.total =
              request_counter'.successful_queries + request_counter'.failed_queries
        /\ IF response'.endpoint = "query"
           THEN /\ request_counter'.total = request_counter.total + 1
                /\ \/ /\ request_counter'.successful_queries =
                            request_counter.successful_queries + 1
                      /\ request_counter'.failed_queries =
                            request_counter.failed_queries
                   \/ /\ request_counter'.successful_queries =
                            request_counter.successful_queries
                      /\ request_counter'.failed_queries =
                            request_counter.failed_queries + 1
           ELSE request_counter' = request_counter ]_vars

\* A POST /query without a JSON body was counted as failed after another
\* endpoint had been served.
C35_Witness ==
    /\ response.endpoint = "query"
    /\ response.status = 500
    /\ response.verified_query = "not_issued"
    /\ request_counter = [total |-> 1, successful_queries |-> 0, failed_queries |-> 1]
    /\ restores > 0


(***************************************************************************)
(* C36.  Every document inserted through POST /add is stored with          *)
(* verified = true, whatever verified value the caller supplied or left    *)
(* out, and so passes the verified-only filter of the first phase of       *)
(* retrieval.                                                              *)
(***************************************************************************)
\* the ids the verified-only collection query can return
VerifiedEligible ==
    LET res == collection_query(Collection, S("q"), IntV(Len(Collection)),
                                TRUE, "ok")
    IN  {res.hits[n].id : n \in 1..Len(res.hits)}

C36_AddedDocumentsAreVerified ==
    \A n \in 1..Len(supplied) :
        \E k \in 1..Len(Collection) :
            /\ Collection[k].id = supplied[n].id
            /\ Get(Collection[k].metadata, "verified") = BoolV(TRUE)
            /\ Collection[k].id \in VerifiedEligible

\* A caller supplied verified = false and the document is stored verified.
C36_Witness ==
    /\ response.endpoint = "add"
    /\ response.status = 200
    /\ Get(response.request.metadata, "verified") = BoolV(FALSE)
    /\ \E k \in 1..Len(Collection) :
          /\ Collection[k].id = response.id
          /\ Get(Collection[k].metadata, "verified") = BoolV(TRUE)
          /\ response.id \in VerifiedEligible


(***************************************************************************)
(* C37.  A POST /restore that answers with an error (400 or 500) leaves    *)
(* the store as it was: the directory of the store holds the same          *)
(* documents as before the request and the live handle still serves them.  *)
(***************************************************************************)
RestoreServed == restores' = restores + 1 /\ response'.endpoint = "restore"

C37_FailedRestoreLeavesStore ==
    [][ (RestoreServed /\ response'.status \in {400, 500})
        => /\ client_path' = client_path
           /\ disk'[client_path] = disk[client_path] ]_vars


(***************************************************************************)
(* C38.  In every state, for every configured CHROMA_DB_PATH, the          *)
(* directory the live handle is opened on, the directory GET /backup       *)
(* archives, the directory POST /restore repopulates and the directory     *)
(* the health check inspects are the same; a backup taken after a          *)
(* successful restore contains the restored data.                          *)
(***************************************************************************)
HandleDirectory == client_path
BackupDirectory == chroma_db_path
RestoreDirectory == RestoreDbPath
HealthDirectory == chroma_db_path

C38_OneDatabaseDirectory ==
    /\ HandleDirectory = BackupDirectory
    /\ BackupDirectory = RestoreDirectory
    /\ RestoreDirectory = HealthDirectory
    /\ (restored_to # "" /\ response.endpoint = "backup" /\ response.status = 200)
       => response.archive.docs = disk[RestoreDirectory].docs

====
